---- MODULE Spec2Model ----
(***************************************************************************)
(* Model of the voice-agent core of BRL-Plus (renderer/lib):               *)
(* startElevenAgentConversation with its mic gate, tool-call orchestrator  *)
(* and hands-free confirmation capture (captureYesNo).                     *)
(*                                                                         *)
(* All callbacks (socket events, audio ticks, timers, promise              *)
(* continuations) run on one event loop: every action below is one         *)
(* callback run to its next await.                                         *)
(***************************************************************************)
EXTENDS Integers, Sequences, FiniteSets, TLC

\* ------------------------------------------------------------- bounds
MaxCalls == 2          \* client_tool_call events of one session
MaxCaptures == 2       \* captureYesNo invocations of one session
MaxFairCaptures == 1   \* the same, in the runs that check eventual settlement
MaxEvents == 4         \* Agent Channel events that reach the player in one session
MaxPlayTime == 500     \* AudioContext.currentTime horizon, ms
PlayStep == 250        \* granularity of AudioContext.currentTime, ms
MaxStopCalls == 2      \* stop() invocations on one controller
MaxTranscripts == 2    \* user_transcript events that reach the host page
MaxInboundPlay == 1    \* metadata events among the inbound messages of every kind
MaxInboundCaptures == 1 \* captures among the inbound messages of every kind
MaxHostCalls == 1      \* tool calls that reach the handler of the host page
MaxLaunchMessages == 1 \* messages that arrive on a socket while its controller starts
MaxConversations == 2  \* startVoiceAgent invocations of the host page
MaxRequests == 1       \* printer requests issued by the host page
MaxBlock == 4          \* samples in one block given to downsampleTo16k
MaxPcmLen == 2         \* samples in one block given to floatTo16BitPCM
MaxTime == 1600        \* Date.now() horizon, ms
TimeStep == 400        \* clock granularity, ms

\* ------------------------------------------------- program constants
ConfirmCooldownMs == 1200
ToolCooldownMs == 200
DefaultTimeoutMs == 20000

ToolNames == {"confirm_action", "print_text"}
HandlerOutcomes == {"value", "unserializable", "throws"}
CallIds == 1..MaxCalls
Controllers == {"agent", "stream"}
ConvIds == 1..MaxConversations
EventIds == 1..MaxEvents
CaptureIds == 1..MaxCaptures

VARIABLES
  now,                  \* Date.now()
  wsState,              \* Agent Channel socket: connecting/open/closing/closed
  isStopped,
  stopPc,               \* position of stop(): idle / awaiting (audioContext.close) / done
  inFlightToolCalls,
  agentMicResumeAtMs,
  calls,                \* per client_tool_call: what happened to it
  quietUntil,           \* history: latest end of a cooldown that followed a completion
  agentOut,             \* text messages put on the Agent Channel, in order
  lastTick,             \* what the latest step did: the frames an onaudioprocess
                        \* sent, the error event or the inbound message it handled
                        \* and the callbacks of the caller it invoked
  speechWs,             \* capture socket currently referenced (0 = null)
  speechCaptureResolve, \* capture whose resolve function is held (0 = null)
  speechCaptureTimer,   \* timer id held (0 = null)
  sock,                 \* per capture socket: readiness, terminate tokens sent
  timers,               \* timeout timers that are armed
  cap,                  \* per capture: state of its promise and what settled it
  timerDelay,           \* opts.timeoutMs and the delay of the latest setTimeout
  currentTime,          \* AudioContext.currentTime of the player, ms
  ctxState,             \* AudioContext.state of the player: suspended / running
  nextTime,             \* AudioQueuePlayer.nextTime, ms (0 = unset)
  pcmSampleRate,        \* AudioQueuePlayer.pcmSampleRate (0 = null)
  arrived,              \* number of Agent Channel events handled so far
  chunk,                \* per audio event: where playBase64AudioChunk stands
  timeline,             \* history: buffers started and resets, in order of effect
  stream,               \* the startSpeechStream controller: socket, isStopped, stop()
  teardown,             \* history, per controller: stop() calls and the steps they ran
  pureIn,               \* argument of the pure function under study
  pureOut,              \* its result, once it was applied
  host,                 \* the host page: its userTranscript state, the copy in
                        \* uiStateRef.current, and what its tool handler did per call
  launch,               \* per controller: where its start function stands, its
                        \* socket, and the socket events the caller saw or missed
  page                  \* the host page: isListening, agentController, demoMode,
                        \* its conversations and the printer requests it issued

gateVars == <<now, inFlightToolCalls, agentMicResumeAtMs, calls, quietUntil>>
capVars == <<speechWs, speechCaptureResolve, speechCaptureTimer, sock, timers, cap,
             timerDelay>>
playVars == <<currentTime, ctxState, nextTime, pcmSampleRate, arrived, chunk, timeline>>
ctlVars == <<stream, teardown>>
pureVars == <<pureIn, pureOut>>
pageVars == <<launch, page>>
auxVars == <<pureIn, pureOut, host, launch, page>>
vars == <<now, wsState, isStopped, stopPc, inFlightToolCalls, agentMicResumeAtMs,
          calls, quietUntil, agentOut, lastTick, speechWs, speechCaptureResolve,
          speechCaptureTimer, sock, timers, cap, timerDelay, currentTime, ctxState,
          nextTime, pcmSampleRate, arrived, chunk, timeline, stream, teardown, pureIn,
          pureOut, host, launch, page>>

Max(a, b) == IF a >= b THEN a ELSE b

NoCall == [st |-> "none", name |-> "", outcome |-> "", open |-> FALSE]
NoMsg == [on |-> "none", kind |-> "none"]
NoTick == [fired |-> FALSE, agent |-> FALSE, speech |-> FALSE, error |-> "none",
           surfaced |-> 0, msg |-> NoMsg, cb |-> <<>>, finished |-> 0]
NoCause == [kind |-> "none", src |-> 0]
NoSock == [st |-> "none", term |-> 0]
NoCap == [st |-> "none", by |-> NoCause]
NoPayload == [b64 |-> "empty", bytes |-> 0, decodable |-> FALSE, decodedMs |-> 0]
NoChunk == [pc |-> "none", payload |-> NoPayload, rate |-> 0]
NoBuffer == [how |-> "none", dur |-> 0]
NewStream == [ws |-> "connecting", isStopped |-> FALSE, pc |-> "idle", term |-> 0,
              fed |-> FALSE]
NoTeardown == [calls |-> 0, steps |-> <<>>, raised |-> FALSE]
NotRun == [done |-> FALSE, val |-> 0]
NoDelay == [asked |-> [type |-> "none", val |-> 0], ms |-> 0]
NoJob == [st |-> "none", text |-> <<>>, requests |-> 0, result |-> "none"]
NewHost == [userTranscript |-> <<>>, ref |-> <<>>, heard |-> 0,
            job |-> [c \in CallIds |-> NoJob]]
NewLaunch == [pc |-> "idle", ws |-> "none", mic |-> "none", resumed |-> FALSE,
              msgs |-> 0, seen |-> <<>>, lost |-> {}]
NoConv == [st |-> "none", demoMode |-> FALSE, agentController |-> 0]
NewPage == [isListening |-> FALSE, agentController |-> 0, demoMode |-> FALSE,
            conv |-> [n \in ConvIds |-> NoConv], lastRequest |-> "none",
            requests |-> <<>>, blocked |-> FALSE]

\* A socket whose readyState is not OPEN and whose close event is still to come
\* is "closing"; "closed" is after the close event was dispatched.
Live(st) == st \in {"connecting", "open"}

\* ---------------------------------------------------------------- Init
\* the session right after startElevenAgentConversation has returned
InitSession ==
  /\ now = 0
  /\ wsState = "connecting"
  /\ isStopped = FALSE
  /\ stopPc = "idle"
  /\ inFlightToolCalls = 0
  /\ agentMicResumeAtMs = 0
  /\ calls = [c \in CallIds |-> NoCall]
  /\ quietUntil = 0
  /\ agentOut = <<>>
  /\ lastTick = NoTick
  /\ speechWs = 0
  /\ speechCaptureResolve = 0
  /\ speechCaptureTimer = 0
  /\ sock = [k \in CaptureIds |-> NoSock]
  /\ timers = {}
  /\ cap = [k \in CaptureIds |-> NoCap]
  /\ timerDelay = NoDelay
  /\ currentTime = 0
  /\ nextTime = 0
  /\ pcmSampleRate = 0
  /\ arrived = 0
  /\ chunk = [e \in EventIds |-> NoChunk]
  /\ timeline = <<>>
  /\ stream = NewStream
  /\ teardown = [c \in Controllers |-> NoTeardown]
  /\ host = NewHost
  /\ launch = [c \in Controllers |-> NewLaunch]
  /\ page = NewPage

Init == InitSession /\ ctxState = "running" /\ pureIn = "none" /\ pureOut = NotRun

\* ------------------------------------------------------ the mic gate

\* cooldown applied in the finally block of the client_tool_call branch
Cooldown(toolName) ==
  IF toolName = "confirm_action" THEN ConfirmCooldownMs ELSE ToolCooldownMs

sendJson_Always(out, msg) == Append(out, msg)

\* sendJson: silently returns unless the Agent Channel socket is OPEN
sendJson(out, msg) == IF wsState # "open" THEN out ELSE Append(out, msg)

ToolResult(id, result, isError) ==
  [type |-> "client_tool_result", tool_call_id |-> id, result |-> result,
   is_error |-> isError]

\* faulty variant: the catch block is missing, a failed handler sends nothing
ToolCallReply_NoCatch(out, c, outcome) ==
  IF outcome = "value" THEN sendJson(out, ToolResult(c, "value", FALSE)) ELSE out

\* faulty variant: the result is sent again from the finally block
ToolCallReply_Twice(out, c, outcome) ==
  LET isErr == outcome # "value"
      once == sendJson(out, ToolResult(c, IF isErr THEN "message" ELSE "value", isErr))
  IN sendJson(once, ToolResult(c, IF isErr THEN "message" ELSE "value", isErr))

\* try { await handler; sendJson(ok) } catch { sendJson(error) }
\* JSON.stringify inside sendJson throws for an unserializable return value, but
\* only when the socket is open (the readyState test comes first).
ToolCallReply(out, c, outcome) ==
  CASE outcome = "value" -> sendJson(out, ToolResult(c, "value", FALSE))
    [] outcome = "unserializable" ->
         IF wsState # "open" THEN out
         ELSE sendJson(out, ToolResult(c, "stringify_error", TRUE))
    [] outcome = "throws" -> sendJson(out, ToolResult(c, "message", TRUE))

\* faulty variant: the counter is cleared instead of decremented
FinallyInFlight_Reset(n) == 0

\* finally { inFlightToolCalls = Math.max(0, inFlightToolCalls - 1) }
FinallyInFlight(n) == Max(0, n - 1)

\* faulty variant: the resume time is overwritten instead of only ever raised
FinallyResumeAt_NoMax(resumeAt, t, toolName) == t + Cooldown(toolName)

\* finally { agentMicResumeAtMs = Math.max(agentMicResumeAtMs, now + cooldown) }
FinallyResumeAt(resumeAt, t, toolName) == Max(resumeAt, t + Cooldown(toolName))

\* faulty variant: the gate stays closed at the very instant the cooldown ends
GateOpen_Late == ~(inFlightToolCalls > 0) /\ ~(now <= agentMicResumeAtMs)

\* faulty variant: the cooldown test is missing
GateOpen_NoCooldown == ~(inFlightToolCalls > 0)

\* the two gate tests of processor.onaudioprocess
GateOpen == ~(inFlightToolCalls > 0) /\ ~(now < agentMicResumeAtMs)

\* the early returns of processor.onaudioprocess
\* faulty variant: the isStopped test is missing
TickRuns_IgnoresStop == wsState = "open"

\* the first two tests of processor.onaudioprocess
TickRuns == ~isStopped /\ wsState = "open"

FeedsSpeech == speechWs # 0 /\ sock[speechWs].st = "open"

NextCall == IF \E c \in CallIds : calls[c].st = "none"
            THEN CHOOSE c \in CallIds :
                   calls[c].st = "none" /\ \A d \in CallIds : d < c => calls[d].st # "none"
            ELSE 0

\* ws.onmessage, type client_tool_call, up to the call of the handler
OnToolCall(toolName, hasId) ==
  /\ wsState = "open"
  /\ NextCall # 0
  /\ LET c == NextCall IN
       IF toolName = "" \/ ~hasId
       THEN /\ calls' = [calls EXCEPT ![c] = [NoCall EXCEPT !.st = "dropped"]]
            /\ UNCHANGED inFlightToolCalls
       ELSE /\ calls' = [calls EXCEPT ![c] = [NoCall EXCEPT !.st = "running", !.name = toolName]]
            /\ inFlightToolCalls' = inFlightToolCalls + 1
  /\ UNCHANGED <<pureVars, pageVars, playVars, ctlVars>>
  /\ UNCHANGED <<now, wsState, isStopped, stopPc, agentMicResumeAtMs, quietUntil, agentOut>>
  /\ UNCHANGED capVars

\* the same with a handler that is not looked into: it settles later, somehow
ReceiveToolCall(toolName, hasId) ==
  /\ OnToolCall(toolName, hasId)
  /\ lastTick' = NoTick
  /\ UNCHANGED host

\* the continuation after the await: reply, then the finally block
OnHandlerFinish(c, outcome) ==
  /\ calls[c].st = "running"
  /\ agentOut' = ToolCallReply(agentOut, c, outcome)
  /\ inFlightToolCalls' = FinallyInFlight(inFlightToolCalls)
  /\ agentMicResumeAtMs' = FinallyResumeAt(agentMicResumeAtMs, now, calls[c].name)
  /\ calls' = [calls EXCEPT ![c] = [@ EXCEPT !.st = "done", !.outcome = outcome,
                                      !.open = (wsState = "open")]]
  /\ quietUntil' = LET endOfCooldown ==
                         now + (IF calls[c].name = "confirm_action" THEN 1200 ELSE 200)
                   IN IF endOfCooldown > quietUntil THEN endOfCooldown ELSE quietUntil
  /\ UNCHANGED <<pureVars, pageVars, playVars, ctlVars>>
  /\ lastTick' = [NoTick EXCEPT !.finished = c,
                                !.error = IF wsState # "open" THEN "tool_result"
                                          ELSE "none"]
  /\ UNCHANGED <<now, wsState, isStopped, stopPc>>
  /\ UNCHANGED capVars

HandlerFinish(c, outcome) ==
  /\ OnHandlerFinish(c, outcome)
  /\ UNCHANGED host

\* processor.onaudioprocess
CaptureTick ==
  /\ UNCHANGED <<auxVars, playVars, ctlVars>>
  /\ lastTick' = IF ~TickRuns THEN [NoTick EXCEPT !.fired = TRUE]
                 ELSE [NoTick EXCEPT !.fired = TRUE, !.speech = FeedsSpeech,
                                     !.agent = GateOpen]
  /\ UNCHANGED <<now, wsState, isStopped, stopPc, inFlightToolCalls,
                 agentMicResumeAtMs, calls, quietUntil, agentOut>>
  /\ UNCHANGED capVars

AdvanceTime ==
  /\ now + TimeStep <= MaxTime
  /\ now' = now + TimeStep
  /\ UNCHANGED <<auxVars, playVars, ctlVars>>
  /\ lastTick' = NoTick
  /\ UNCHANGED <<wsState, isStopped, stopPc, inFlightToolCalls, agentMicResumeAtMs,
                 calls, quietUntil, agentOut>>
  /\ UNCHANGED capVars

\* ------------------------------------------- Agent Channel socket events
AgentWsOpen ==
  /\ wsState = "connecting"
  /\ wsState' = "open"
  /\ UNCHANGED <<auxVars, playVars, ctlVars>>
  /\ lastTick' = NoTick
  /\ UNCHANGED <<now, isStopped, stopPc, inFlightToolCalls, agentMicResumeAtMs,
                 calls, quietUntil, agentOut>>
  /\ UNCHANGED capVars

\* ws.onerror: the connection failed; the close event follows
safeError_Silent(t) == t

\* safeError: handlers.onError is called once
safeError(t) == [t EXCEPT !.surfaced = @ + 1]

AgentWsError ==
  /\ wsState \in {"connecting", "open"}
  /\ wsState' = "closing"
  /\ UNCHANGED <<auxVars, playVars, ctlVars>>
  /\ lastTick' = safeError([NoTick EXCEPT !.error = "agent"])
  /\ UNCHANGED <<now, isStopped, stopPc, inFlightToolCalls, agentMicResumeAtMs,
                 calls, quietUntil, agentOut>>
  /\ UNCHANGED capVars

\* ws.onclose
AgentWsClose ==
  /\ wsState \in {"connecting", "open", "closing"}
  /\ wsState' = "closed"
  /\ UNCHANGED <<auxVars, playVars, ctlVars>>
  /\ lastTick' = NoTick
  /\ UNCHANGED <<now, isStopped, stopPc, inFlightToolCalls, agentMicResumeAtMs,
                 calls, quietUntil, agentOut>>
  /\ UNCHANGED capVars

\* ------------------------------------------- confirmation capture

\* the module-scoped capture state as one value, threaded through the helpers
CapNow == [speechWs |-> speechWs, speechCaptureResolve |-> speechCaptureResolve,
           speechCaptureTimer |-> speechCaptureTimer, sock |-> sock,
           timers |-> timers, cap |-> cap, timerDelay |-> timerDelay]

SetCap(s) ==
  /\ speechWs' = s.speechWs
  /\ speechCaptureResolve' = s.speechCaptureResolve
  /\ speechCaptureTimer' = s.speechCaptureTimer
  /\ sock' = s.sock
  /\ timers' = s.timers
  /\ cap' = s.cap
  /\ timerDelay' = s.timerDelay

\* WebSocket.close(): readyState leaves OPEN/CONNECTING at once, the close
\* event comes later
WsClose(sk) == IF Live(sk.st) THEN [sk EXCEPT !.st = "closing"] ELSE sk

closeSpeechWs_NoToken(s) ==
  IF s.speechWs = 0 THEN s
  ELSE [s EXCEPT !.sock[s.speechWs] = WsClose(@), !.speechWs = 0]

\* closeSpeechWs: terminate token if OPEN, close(), forget the socket
closeSpeechWs(s) ==
  IF s.speechWs = 0 THEN s
  ELSE LET k == s.speechWs
           sent == IF s.sock[k].st = "open"
                   THEN [s.sock[k] EXCEPT !.term = @ + 1] ELSE s.sock[k]
       IN [s EXCEPT !.sock[k] = WsClose(sent), !.speechWs = 0]

\* clearSpeechCaptureTimer
clearSpeechCaptureTimer(s) ==
  IF s.speechCaptureTimer = 0 THEN s
  ELSE [s EXCEPT !.timers = @ \ {s.speechCaptureTimer}, !.speechCaptureTimer = 0]

\* a promise settles once: later resolve/reject calls change nothing
Settle(c, st, kind, src) ==
  IF c.st = "pending" THEN [st |-> st, by |-> [kind |-> kind, src |-> src]] ELSE c

\* resolve function r (0 = null) called with a boolean: r?.(v)
Resolve(s, r, v, kind, src) ==
  IF r = 0 THEN s
  ELSE [s EXCEPT !.cap[r] = Settle(@, IF v THEN "true" ELSE "false", kind, src)]

\* faulty variant: an error is treated as the answer "no"
Reject_AsFalse(s, k, kind) ==
  [s EXCEPT !.cap[k] = IF @.st = "pending"
                       THEN [st |-> "false", by |-> [kind |-> kind, src |-> k]] ELSE @]

\* the reject closed over by capture k's own socket handlers
Reject(s, k, kind) == [s EXCEPT !.cap[k] = Settle(@, "rejected", kind, k)]

\* "const r = speechCaptureResolve; speechCaptureResolve = null;
\*  clearSpeechCaptureTimer(); closeSpeechWs(); r?.(v)"
ResolveAndCleanup(s, v, kind, src) ==
  LET r == s.speechCaptureResolve
      s1 == [s EXCEPT !.speechCaptureResolve = 0]
      s2 == closeSpeechWs(clearSpeechCaptureTimer(s1))
  IN Resolve(s2, r, v, kind, src)

NextCapture == IF \E k \in CaptureIds : cap[k].st = "none"
               THEN CHOOSE k \in CaptureIds :
                      cap[k].st = "none" /\ \A j \in CaptureIds : j < k => cap[j].st # "none"
               ELSE 0

\* faulty variant: the previous capture's socket is not closed
SupersedeAndStart_NoClose(s, k) ==
  LET s1 == [s EXCEPT !.speechCaptureResolve = 0, !.timers = {}]
  IN [s1 EXCEPT !.cap = [j \in CaptureIds |->
                          IF j = s.speechCaptureResolve /\ s.cap[j].st = "pending"
                          THEN [st |-> "false", by |-> [kind |-> "supersede", src |-> k]]
                          ELSE IF j = k THEN [st |-> "pending", by |-> NoCause]
                          ELSE s.cap[j]],
                !.speechCaptureResolve = k,
                !.speechWs = k,
                !.sock[k] = [st |-> "connecting", term |-> 0],
                !.speechCaptureTimer = k,
                !.timers = {k}]

\* captureYesNo up to the await of its promise: supersede, then the executor
SupersedeAndStart(s, k) ==
  LET s1 == Resolve(s, s.speechCaptureResolve, FALSE, "supersede", k)
      s2 == [s1 EXCEPT !.speechCaptureResolve = 0]
      s3 == closeSpeechWs(clearSpeechCaptureTimer(s2))
  IN [s3 EXCEPT !.speechCaptureResolve = k,
                !.speechWs = k,
                !.sock[k] = [st |-> "connecting", term |-> 0],
                !.speechCaptureTimer = k,
                !.timers = @ \cup {k},
                !.cap[k] = [st |-> "pending", by |-> NoCause]]

\* opts.timeoutMs as the caller may pass it
TimeoutInputs ==
  {[type |-> "undefined", val |-> 0], [type |-> "string", val |-> 5000],
   [type |-> "NaN", val |-> 0], [type |-> "number", val |-> 0],
   [type |-> "number", val |-> 0 - 100], [type |-> "number", val |-> 5000],
   [type |-> "number", val |-> 20000]}

\* what the host page passes (confirm_action handler)
HostTimeout == [type |-> "number", val |-> 20000]

\* faulty variant: any number is taken as the delay
EffectiveTimeoutMs_NoSignTest(opt) ==
  IF opt.type \in {"number", "NaN"} THEN opt.val ELSE DefaultTimeoutMs

\* typeof opts.timeoutMs === "number" && opts.timeoutMs > 0 ? opts.timeoutMs : 20000
\* (typeof NaN is "number", and NaN > 0 is false)
EffectiveTimeoutMs(opt) ==
  IF opt.type \in {"number", "NaN"} /\ (opt.type # "NaN" /\ opt.val > 0)
  THEN opt.val ELSE DefaultTimeoutMs

captureYesNo(timeoutMs) ==
  /\ NextCapture # 0
  /\ SetCap([SupersedeAndStart(CapNow, NextCapture)
               EXCEPT !.timerDelay =
                        [asked |-> timeoutMs, ms |-> EffectiveTimeoutMs(timeoutMs)]])
  /\ UNCHANGED <<auxVars, playVars, ctlVars>>
  /\ lastTick' = NoTick
  /\ UNCHANGED <<wsState, isStopped, stopPc, agentOut>>
  /\ UNCHANGED gateVars

\* messages of the speech service; a text is a sequence of characters
Transcripts ==
  {<<"y", "e", "s">>, <<"n", "o">>, <<"y", "e", "s", " ", "b", "u", "t", " ", "n", "o">>,
   <<"h", "e", "l", "l", "o">>, <<>>, <<" ", "O", "k", "a", "y", " ">>}

UpperCase == <<"A", "B", "C", "D", "E", "F", "G", "H", "I", "J", "K", "L", "M", "N", "O", "P", "Q", "R", "S", "T", "U", "V", "W", "X", "Y", "Z">>
LowerCase == <<"a", "b", "c", "d", "e", "f", "g", "h", "i", "j", "k", "l", "m", "n", "o", "p", "q", "r", "s", "t", "u", "v", "w", "x", "y", "z">>
Digits == {"0", "1", "2", "3", "4", "5", "6", "7", "8", "9"}
WhiteSpace == {" ", "\t", "\n"}

Range(f) == {f[i] : i \in DOMAIN f}

\* String.prototype.toLowerCase
toLowerCase(t) ==
  [i \in DOMAIN t |->
     IF t[i] \in Range(UpperCase)
       THEN LowerCase[CHOOSE j \in DOMAIN UpperCase : UpperCase[j] = t[i]]
       ELSE t[i]]

\* String.prototype.trim
trim(t) ==
  LET black == {i \in DOMAIN t : t[i] \notin WhiteSpace} IN
    IF black = {} THEN <<>>
    ELSE SubSeq(t, CHOOSE i \in black : \A j \in black : i <= j,
                   CHOOSE i \in black : \A j \in black : j <= i)

\* \w of a regular expression
WordChar(c) == c \in Range(UpperCase) \cup Range(LowerCase) \cup Digits \cup {"_"}

\* \b at the position before t[i] (i = Len(t) + 1: the end of the text)
WordBoundary(t, i) ==
  LET before == i - 1 \in DOMAIN t /\ WordChar(t[i - 1])
      after == i \in DOMAIN t /\ WordChar(t[i])
  IN before # after

\* the alternatives of the two regular expressions
NegativeWords ==
  {<<"n", "o">>, <<"n", "o", "p", "e">>, <<"c", "a", "n", "c", "e", "l">>,
   <<"s", "t", "o", "p">>, <<"d", "o", "n", "'", "t">>, <<"d", "o", " ", "n", "o", "t">>,
   <<"n", "e", "v", "e", "r">>}
AffirmativeWords ==
  {<<"y", "e", "s">>, <<"y", "e", "a", "h">>, <<"y", "e", "p">>,
   <<"c", "o", "n", "f", "i", "r", "m">>, <<"c", "o", "n", "f", "i", "r", "m", "e", "d">>,
   <<"o", "k">>, <<"o", "k", "a", "y">>, <<"s", "u", "r", "e">>,
   <<"d", "o", " ", "i", "t">>, <<"p", "r", "i", "n", "t", " ", "i", "t">>,
   <<"g", "o", " ", "a", "h", "e", "a", "d">>}

\* /\b(alt1|alt2|...)\b/.test(t)
Test(alts, t) ==
  \E i \in 1..(Len(t) + 1), a \in alts :
    /\ i + Len(a) - 1 <= Len(t)
    /\ SubSeq(t, i, i + Len(a) - 1) = a
    /\ WordBoundary(t, i)
    /\ WordBoundary(t, i + Len(a))

detectYesNo_NoFirst(transcriptRaw) ==
  LET t == toLowerCase(transcriptRaw)
      no == Test(NegativeWords, t)
      yes == Test(AffirmativeWords, t)
  IN IF trim(t) = <<>> THEN "null"
     ELSE IF no THEN "no"
     ELSE IF yes THEN "yes"
     ELSE "null"

\* detectYesNo: "yes" (true) / "no" (false) / "null"
detectYesNo(transcriptRaw) ==
  LET t == toLowerCase(transcriptRaw)
      no == Test(NegativeWords, t)
      yes == Test(AffirmativeWords, t)
  IN IF trim(t) = <<>> THEN "null"
     ELSE IF yes /\ ~no THEN "yes"
     ELSE IF no /\ ~yes THEN "no"
     ELSE "null"

\* the verdict of each transcript the service may send, after the handler's trim
VerdictOf == [t \in Transcripts |-> detectYesNo(trim(t))]

SpeechMessages ==
  {[kind |-> "binary", transcript |-> <<>>], [kind |-> "badjson", transcript |-> <<>>],
   [kind |-> "error", transcript |-> <<>>], [kind |-> "other", transcript |-> <<>>]}
  \cup {[kind |-> "transcript", transcript |-> t] : t \in Transcripts}

\* speechWs.onmessage of capture k's socket
OnSpeechMessage(s, k, m) ==
  CASE m.kind \in {"binary", "badjson", "other"} -> s
    [] m.kind = "error" -> Reject(s, k, "error_msg")
    [] m.kind = "transcript" ->
         LET verdict == VerdictOf[m.transcript] IN
           IF verdict = "null" THEN s
           ELSE ResolveAndCleanup(s, verdict = "yes", "verdict", k)

\* message events are dispatched only while readyState is OPEN
SpeechWsMessage(k, m) ==
  /\ sock[k].st = "open"
  /\ SetCap(OnSpeechMessage(CapNow, k, m))
  /\ UNCHANGED <<auxVars, playVars, ctlVars>>
  /\ lastTick' = [NoTick EXCEPT !.msg = [on |-> "speech", kind |-> m.kind]]
  /\ UNCHANGED <<wsState, isStopped, stopPc, agentOut>>
  /\ UNCHANGED gateVars

SpeechWsOpen(k) ==
  /\ sock[k].st = "connecting"
  /\ sock' = [sock EXCEPT ![k].st = "open"]
  /\ UNCHANGED <<auxVars, playVars, ctlVars>>
  /\ lastTick' = NoTick
  /\ UNCHANGED <<speechWs, speechCaptureResolve, speechCaptureTimer, timers, cap,
                 timerDelay>>
  /\ UNCHANGED <<wsState, isStopped, stopPc, agentOut>>
  /\ UNCHANGED gateVars

\* speechWs.onerror of capture k's socket: the connection failed, close follows
OnSpeechError(s, k) ==
  Reject([s EXCEPT !.sock[k].st = "closing"], k, "sock_error")

\* the error reaches the caller of captureYesNo if reject() settles the promise
SpeechWsError(k) ==
  /\ sock[k].st \in {"connecting", "open", "closing"}
  /\ SetCap(OnSpeechError(CapNow, k))
  /\ UNCHANGED <<auxVars, playVars, ctlVars>>
  /\ lastTick' = [NoTick EXCEPT !.error = "speech",
                                !.surfaced = IF OnSpeechError(CapNow, k).cap[k] # cap[k]
                                             THEN 1 ELSE 0]
  /\ UNCHANGED <<wsState, isStopped, stopPc, agentOut>>
  /\ UNCHANGED gateVars

\* speechWs.onclose of capture k's socket
OnSpeechClose(s, k) ==
  LET s0 == [s EXCEPT !.sock[k].st = "closed"] IN
    IF s0.speechCaptureResolve # 0
    THEN ResolveAndCleanup(s0, FALSE, "close", k)
    ELSE s0

SpeechWsClose(k) ==
  /\ sock[k].st \in {"connecting", "open", "closing"}
  /\ SetCap(OnSpeechClose(CapNow, k))
  /\ UNCHANGED <<auxVars, playVars, ctlVars>>
  /\ lastTick' = NoTick
  /\ UNCHANGED <<wsState, isStopped, stopPc, agentOut>>
  /\ UNCHANGED gateVars

\* the setTimeout callback armed by capture k
OnCaptureTimeout(s, k) ==
  ResolveAndCleanup([s EXCEPT !.timers = @ \ {k}], FALSE, "timeout", k)

CaptureTimeout(k) ==
  /\ k \in timers
  /\ SetCap(OnCaptureTimeout(CapNow, k))
  /\ UNCHANGED <<auxVars, playVars, ctlVars>>
  /\ lastTick' = NoTick
  /\ UNCHANGED <<wsState, isStopped, stopPc, agentOut>>
  /\ UNCHANGED gateVars

\* ---------------------------------------------------------------- stop()
\* variant: stop() cancels the timer but leaves the capture socket alone
StopTeardown_NoClose(s) == clearSpeechCaptureTimer(s)

\* stop() up to the first try block: clearSpeechCaptureTimer(); closeSpeechWs()
StopTeardown(s) == closeSpeechWs(clearSpeechCaptureTimer(s))

\* the try blocks of stop(), in program order, before and after the await
FirstSteps ==
  <<"processor.disconnect", "source.disconnect", "tracks.stop", "audioContext.close">>
LastSteps == <<"terminate", "ws.close">>
AllSteps == FirstSteps \o LastSteps
StepNames == {AllSteps[i] : i \in DOMAIN AllSteps}
FirstFailures == SUBSET {FirstSteps[i] : i \in DOMAIN FirstSteps}
LastFailures == SUBSET {LastSteps[i] : i \in DOMAIN LastSteps}

TryCatch_NotTracks == StepNames \ {"tracks.stop"}

\* the steps of stop() that are wrapped in try { } catch { }
TryCatch == StepNames

\* runs the steps in order; a step in fail throws, which ends the run unless
\* the step is inside a try block
RECURSIVE Attempt(_, _)
Attempt(steps, fail) ==
  IF steps = <<>> THEN [steps |-> <<>>, raised |-> FALSE]
  ELSE IF Head(steps) \in fail /\ Head(steps) \notin TryCatch
    THEN [steps |-> <<Head(steps)>>, raised |-> TRUE]
  ELSE LET rest == Attempt(Tail(steps), fail) IN
         [steps |-> <<Head(steps)>> \o rest.steps, raised |-> rest.raised]

\* what a run of steps leaves in the history of controller c
Ran(t, r) == [t EXCEPT !.steps = @ \o r.steps, !.raised = @ \/ r.raised]

Did(r, step, fail) == step \notin fail /\ \E i \in DOMAIN r.steps : r.steps[i] = step

\* stop() of the agent controller, first call, up to "await audioContext.close()"
Stop(fail) ==
  /\ ~isStopped
  /\ teardown["agent"].calls < MaxStopCalls
  /\ isStopped' = TRUE
  /\ SetCap(StopTeardown(CapNow))
  /\ nextTime' = 0
  /\ LET r == Attempt(FirstSteps, fail) IN
       /\ teardown' = [teardown EXCEPT
                         !["agent"] = [Ran(@, r) EXCEPT !.calls = @ + 1]]
       /\ stopPc' = IF r.raised THEN "done" ELSE "awaiting"
  /\ UNCHANGED <<currentTime, ctxState, pcmSampleRate, arrived, chunk, timeline>>
  /\ UNCHANGED <<auxVars, stream>>
  /\ lastTick' = NoTick
  /\ UNCHANGED <<wsState, agentOut>>
  /\ UNCHANGED gateVars

\* stop() after the await: terminate token if OPEN, then ws.close()
StopFinish(fail) ==
  /\ stopPc = "awaiting"
  /\ stopPc' = "done"
  /\ LET r == Attempt(LastSteps, fail) IN
       /\ teardown' = [teardown EXCEPT !["agent"] = Ran(@, r)]
       /\ agentOut' = IF wsState = "open" /\ Did(r, "terminate", fail)
                       THEN Append(agentOut, [type |-> "terminate"])
                       ELSE agentOut
       /\ wsState' = IF Live(wsState) /\ Did(r, "ws.close", fail) THEN "closing"
                      ELSE wsState
  /\ UNCHANGED <<auxVars, playVars, stream>>
  /\ lastTick' = NoTick
  /\ UNCHANGED isStopped
  /\ UNCHANGED gateVars
  /\ UNCHANGED capVars

StopAgain_Rerun ==
  /\ isStopped
  /\ teardown["agent"].calls < MaxStopCalls
  /\ teardown' = [teardown EXCEPT
                    !["agent"] = [Ran(@, Attempt(AllSteps, {})) EXCEPT !.calls = @ + 1]]
  /\ wsState' = IF Live(wsState) THEN "closing" ELSE wsState
  /\ UNCHANGED <<auxVars, playVars, stream>>
  /\ lastTick' = NoTick
  /\ UNCHANGED <<isStopped, stopPc, agentOut>>
  /\ UNCHANGED gateVars
  /\ UNCHANGED capVars

\* stop() called again: if (isStopped) return
StopAgain ==
  /\ isStopped
  /\ teardown["agent"].calls < MaxStopCalls
  /\ teardown' = [teardown EXCEPT !["agent"].calls = @ + 1]
  /\ UNCHANGED <<auxVars, playVars, stream>>
  /\ lastTick' = NoTick
  /\ UNCHANGED <<wsState, isStopped, stopPc, agentOut>>
  /\ UNCHANGED gateVars
  /\ UNCHANGED capVars

\* ------------------------------------------- startSpeechStream controller
streamRest == <<wsState, isStopped, stopPc, agentOut, gateVars, capVars, auxVars, playVars>>

StreamWsOpen ==
  /\ stream.ws = "connecting"
  /\ stream' = [stream EXCEPT !.ws = "open", !.fed = FALSE]
  /\ lastTick' = NoTick
  /\ UNCHANGED <<teardown, streamRest>>

\* safeOnError: handlers.onError is called once
safeOnError(t) == [t EXCEPT !.surfaced = @ + 1]

\* ws.onerror: the connection failed; the close event follows
StreamWsError ==
  /\ stream.ws \in {"connecting", "open"}
  /\ stream' = [stream EXCEPT !.ws = "closing", !.fed = FALSE]
  /\ lastTick' = safeOnError([NoTick EXCEPT !.error = "stream"])
  /\ UNCHANGED <<teardown, streamRest>>

\* ws.onclose
StreamWsClose ==
  /\ stream.ws \in {"connecting", "open", "closing"}
  /\ stream' = [stream EXCEPT !.ws = "closed", !.fed = FALSE]
  /\ lastTick' = NoTick
  /\ UNCHANGED <<teardown, streamRest>>

\* processor.onaudioprocess: a PCM frame goes out unless stopped or not OPEN
StreamTick ==
  /\ stream' = [stream EXCEPT !.fed = ~stream.isStopped /\ stream.ws = "open"]
  /\ lastTick' = NoTick
  /\ UNCHANGED <<teardown, streamRest>>

\* stop(), first call, up to "await audioContext.close()"
StreamStop(fail) ==
  /\ ~stream.isStopped
  /\ teardown["stream"].calls < MaxStopCalls
  /\ LET r == Attempt(FirstSteps, fail) IN
       /\ teardown' = [teardown EXCEPT
                         !["stream"] = [Ran(@, r) EXCEPT !.calls = @ + 1]]
       /\ stream' = [stream EXCEPT !.isStopped = TRUE, !.fed = FALSE,
                                    !.pc = IF r.raised THEN "done" ELSE "awaiting"]
  /\ lastTick' = NoTick
  /\ UNCHANGED streamRest

\* stop() after the await: terminate token if OPEN, then ws.close()
StreamStopFinish(fail) ==
  /\ stream.pc = "awaiting"
  /\ LET r == Attempt(LastSteps, fail) IN
       /\ teardown' = [teardown EXCEPT !["stream"] = Ran(@, r)]
       /\ stream' = [stream EXCEPT
            !.pc = "done", !.fed = FALSE,
            !.term = IF stream.ws = "open" /\ Did(r, "terminate", fail) THEN @ + 1 ELSE @,
            !.ws = IF Live(stream.ws) /\ Did(r, "ws.close", fail) THEN "closing" ELSE @]
  /\ lastTick' = NoTick
  /\ UNCHANGED streamRest

\* stop() called again: if (isStopped) return
StreamStopAgain ==
  /\ stream.isStopped
  /\ teardown["stream"].calls < MaxStopCalls
  /\ teardown' = [teardown EXCEPT !["stream"].calls = @ + 1]
  /\ stream' = [stream EXCEPT !.fed = FALSE]
  /\ lastTick' = NoTick
  /\ UNCHANGED streamRest

\* ------------------------------------------------------------- specs
\* the mic gate and the tool-call orchestrator
NextGate ==
  \/ \E n \in ToolNames \cup {""}, h \in BOOLEAN : ReceiveToolCall(n, h)
  \/ \E c \in CallIds, o \in HandlerOutcomes : HandlerFinish(c, o)
  \/ CaptureTick
  \/ AdvanceTime
  \/ AgentWsOpen
  \/ AgentWsError
  \/ AgentWsClose
  \/ Stop({})
  \/ StopFinish({})

SpecGate == Init /\ [][NextGate]_vars

\* the confirmation capture
NextCap ==
  \/ captureYesNo(HostTimeout)
  \/ \E k \in CaptureIds : SpeechWsOpen(k)
  \/ \E k \in CaptureIds, m \in SpeechMessages : SpeechWsMessage(k, m)
  \/ \E k \in CaptureIds : SpeechWsError(k)
  \/ \E k \in CaptureIds : SpeechWsClose(k)
  \/ \E k \in CaptureIds : CaptureTimeout(k)
  \/ CaptureTick
  \/ AgentWsOpen
  \/ AgentWsError
  \/ AgentWsClose
  \/ Stop({})
  \/ StopFinish({})

SpecCapture == Init /\ [][NextCap]_vars

\* the capture with every timeoutMs a caller may pass; timers fire and a socket
\* whose close was requested (or that failed) gets its close event
NextCapFair ==
  \/ \E t \in TimeoutInputs : NextCapture <= MaxFairCaptures /\ captureYesNo(t)
  \/ \E k \in CaptureIds : SpeechWsOpen(k)
  \/ \E k \in CaptureIds, m \in SpeechMessages : SpeechWsMessage(k, m)
  \/ \E k \in CaptureIds : SpeechWsError(k)
  \/ \E k \in CaptureIds : SpeechWsClose(k)
  \/ \E k \in CaptureIds : CaptureTimeout(k)
  \/ Stop({})
  \/ StopFinish({})

CloseEventDue(k) == sock[k].st = "closing" /\ SpeechWsClose(k)

SpecCaptureFair ==
  /\ Init /\ [][NextCapFair]_vars
  /\ \A k \in CaptureIds : WF_vars(CaptureTimeout(k))
  /\ \A k \in CaptureIds : WF_vars(CloseEventDue(k))

\* stop() of the two controllers, with every choice of failing steps
NextStop ==
  \/ AgentWsOpen
  \/ StreamWsOpen
  \/ NextCapture <= MaxFairCaptures /\ captureYesNo(HostTimeout)
  \/ \E k \in CaptureIds : SpeechWsOpen(k)
  \/ \E fail \in FirstFailures : Stop(fail)
  \/ \E fail \in LastFailures : StopFinish(fail)
  \/ StopAgain
  \/ \E fail \in FirstFailures : StreamStop(fail)
  \/ \E fail \in LastFailures : StreamStopFinish(fail)
  \/ StreamStopAgain

SpecStop == Init /\ [][NextStop]_vars

\* the sockets of the three channels: their events, the ticks and stop()
NextTranscription ==
  \/ StreamWsOpen
  \/ StreamWsError
  \/ StreamWsClose
  \/ StreamTick
  \/ StreamStop({})
  \/ StreamStopFinish({})
  \/ NextCapture <= MaxFairCaptures /\ captureYesNo(HostTimeout)
  \/ \E k \in CaptureIds : SpeechWsOpen(k)
  \/ \E k \in CaptureIds, m \in SpeechMessages : SpeechWsMessage(k, m)
  \/ \E k \in CaptureIds : SpeechWsError(k)
  \/ \E k \in CaptureIds : SpeechWsClose(k)
  \/ \E k \in CaptureIds : CaptureTimeout(k)
  \/ CaptureTick
  \/ AgentWsOpen
  \/ AgentWsError
  \/ AgentWsClose
  \/ Stop({})
  \/ StopFinish({})

SpecTranscription == Init /\ [][NextTranscription]_vars

\* stop() of both controllers among tool calls, captures and ticks
NextShutdown ==
  \/ AgentWsOpen
  \/ ReceiveToolCall("print_text", TRUE)
  \/ \E c \in CallIds, o \in HandlerOutcomes : HandlerFinish(c, o)
  \/ CaptureTick
  \/ Stop({})
  \/ StopFinish({})
  \/ NextCapture <= MaxFairCaptures /\ captureYesNo(HostTimeout)
  \/ \E k \in CaptureIds : SpeechWsOpen(k)
  \/ StreamWsOpen
  \/ StreamTick
  \/ StreamStop({})
  \/ StreamStopFinish({})

SpecShutdown == Init /\ [][NextShutdown]_vars

\* ---------------------------------------------------- AudioQueuePlayer
\* audio payloads: the base64 text, the bytes it decodes to, and what
\* decodeAudioData makes of them
Payloads ==
  {[b64 |-> "empty", bytes |-> 0, decodable |-> FALSE, decodedMs |-> 0],
   [b64 |-> "invalid", bytes |-> 0, decodable |-> FALSE, decodedMs |-> 0],
   [b64 |-> "ok", bytes |-> 1, decodable |-> FALSE, decodedMs |-> 0],
   [b64 |-> "ok", bytes |-> 16000, decodable |-> FALSE, decodedMs |-> 0],
   [b64 |-> "ok", bytes |-> 8001, decodable |-> TRUE, decodedMs |-> 750]}

\* agent_output_audio_format of the metadata event
\* (undefined, or a text)
Absent == [present |-> FALSE, text |-> <<>>]
Str(t) == [present |-> TRUE, text |-> t]
Formats == {Absent, Str(<<"p", "c", "m", "_", "8", "0", "0", "0">>), Str(<<"m", "p", "3", "_", "4", "4", "1", "0", "0">>)}
FormatInputs ==
  Formats \cup
  {Str(<<>>),
   Str(<<" ">>),
   Str(<<" ", "P", "C", "M", "_", "2", "4", "0", "0", "0", " ">>),
   Str(<<"p", "c", "m", "_", "0">>),
   Str(<<"p", "c", "m", "_">>),
   Str(<<"p", "c", "m", "_", "4", "4", "1", "x">>),
   Str(<<"x", "p", "c", "m", "_", "8", "0", "0", "0">>),
   Str(<<"u", "l", "a", "w", "_", "8", "0", "0", "0">>),
   Str(<<"p", "c", "m", "_", "0", "1", "6", "0", "0", "0">>),
   Str(<<"p", "c", "m", "8", "0", "0", "0">>),
   Str(<<"p", "c", "m", "_", "-", "8", "0", "0", "0">>),
   Str(<<"P", "c", "m", "_", "8", "	">>)}

DigitChars == <<"0", "1", "2", "3", "4", "5", "6", "7", "8", "9">>

\* Number(m[1]) for the digits m[1]
RECURSIVE Number(_, _)
Number(digits, acc) ==
  IF digits = <<>> THEN acc
  ELSE Number(Tail(digits),
              10 * acc + (CHOOSE v \in 0..9 : DigitChars[v + 1] = Head(digits)))

\* the text matched by \d+ from position i on
RECURSIVE DigitRun(_, _)
DigitRun(t, i) ==
  IF i \in DOMAIN t /\ t[i] \in Digits THEN <<t[i]>> \o DigitRun(t, i + 1) ELSE <<>>

parsePcmSampleRate_NoTrim(format) ==
  IF ~format.present \/ format.text = <<>> THEN 0
  ELSE LET t == toLowerCase(format.text)
           m == DigitRun(t, 5)
       IN IF Len(t) >= 4 /\ SubSeq(t, 1, 4) = <<"p", "c", "m", "_">> /\ m # <<>>
          THEN (IF Number(m, 0) > 0 THEN Number(m, 0) ELSE 0)
          ELSE 0

\* parsePcmSampleRate: /^pcm_(\d+)/i on the trimmed text; the rate, or 0 for null
parsePcmSampleRate(format) ==
  IF ~format.present \/ format.text = <<>> THEN 0
  ELSE LET t == toLowerCase(trim(format.text))
           m == DigitRun(t, 5)
       IN IF Len(t) >= 4 /\ SubSeq(t, 1, 4) = <<"p", "c", "m", "_">> /\ m # <<>>
          THEN (IF Number(m, 0) > 0 THEN Number(m, 0) ELSE 0)
          ELSE 0

\* AudioBuffer.duration of sampleCount = floor(byteLength / 2) samples, in ms
Duration(bytes, rate) == ((bytes \div 2) * 1000) \div rate

Schedule_NoMax(e, buf) ==
  /\ timeline' = Append(timeline, [ev |-> e, kind |-> "buffer", how |-> buf.how,
                                    at |-> currentTime, start |-> currentTime,
                                    dur |-> buf.dur])
  /\ nextTime' = currentTime + buf.dur

\* source.start(startAt); this.nextTime = startAt + duration
Schedule(e, buf) ==
  LET startAt == Max(currentTime, IF nextTime # 0 THEN nextTime ELSE currentTime) IN
    /\ timeline' = Append(timeline, [ev |-> e, kind |-> "buffer", how |-> buf.how,
                                      at |-> currentTime, start |-> startAt,
                                      dur |-> buf.dur])
    /\ nextTime' = startAt + buf.dur

\* the PCM path of playBase64AudioChunk, at the given rate
PcmBuffer(p, rate, how) ==
  IF p.bytes < 2 THEN NoBuffer ELSE [how |-> how, dur |-> Duration(p.bytes, rate)]

AfterResume_DecodeFirst(p) ==
  IF p.b64 = "invalid" THEN [pc |-> "done", rate |-> 0, buf |-> NoBuffer]
  ELSE [pc |-> "decode", rate |-> pcmSampleRate, buf |-> NoBuffer]

\* playBase64AudioChunk from base64ToBytes to its next await or its return;
\* rate is this.pcmSampleRate as read by the test that picks the path
AfterResume(p) ==
  IF p.b64 = "invalid" THEN [pc |-> "done", rate |-> 0, buf |-> NoBuffer]
  ELSE IF pcmSampleRate # 0
    THEN [pc |-> "done", rate |-> pcmSampleRate,
          buf |-> PcmBuffer(p, pcmSampleRate, "pcm")]
    ELSE [pc |-> "decode", rate |-> 0, buf |-> NoBuffer]

\* the continuation of decodeAudioData: the decoded buffer, or the fallback
AfterDecode(p, rate) ==
  IF p.decodable
    THEN [pc |-> "done", rate |-> rate, buf |-> [how |-> "decoded", dur |-> p.decodedMs]]
    ELSE [pc |-> "done", rate |-> rate, buf |-> PcmBuffer(p, 16000, "pcm16k")]

PlayerStep(e, p, r) ==
  /\ chunk' = [chunk EXCEPT ![e] = [pc |-> r.pc, payload |-> p, rate |-> r.rate]]
  /\ IF r.buf.how = "none" THEN UNCHANGED <<nextTime, timeline>> ELSE Schedule(e, r.buf)

restVars ==
  <<wsState, isStopped, stopPc, agentOut, gateVars, capVars, auxVars, ctlVars>>

\* ws.onmessage, type 'audio': playBase64AudioChunk up to its first await
ReceiveAudio(p) ==
  /\ wsState = "open" /\ arrived < MaxEvents
  /\ arrived' = arrived + 1
  /\ PlayerStep(arrived + 1, p,
        IF p.b64 = "empty" THEN [pc |-> "done", rate |-> 0, buf |-> NoBuffer]
        ELSE IF ctxState = "suspended" THEN [pc |-> "resume", rate |-> 0, buf |-> NoBuffer]
        ELSE AfterResume(p))
  /\ UNCHANGED <<currentTime, ctxState, pcmSampleRate>>
  /\ lastTick' = NoTick
  /\ UNCHANGED restVars

\* the promise of ctx.resume() is fulfilled, in the order of the calls (a
\* rejection is swallowed and is followed by the same continuation)
ResumeDone(e) ==
  /\ chunk[e].pc = "resume"
  /\ \A d \in EventIds : d < e => chunk[d].pc # "resume"
  /\ ctxState' = "running"
  /\ PlayerStep(e, chunk[e].payload, AfterResume(chunk[e].payload))
  /\ UNCHANGED <<currentTime, pcmSampleRate, arrived>>
  /\ lastTick' = NoTick
  /\ UNCHANGED restVars

\* the promise of decodeAudioData settles; the decoding thread takes the
\* operations in the order they were queued
DecodeDone(e) ==
  /\ chunk[e].pc = "decode"
  /\ \A d \in EventIds : d < e => chunk[d].pc # "decode"
  /\ PlayerStep(e, chunk[e].payload, AfterDecode(chunk[e].payload, chunk[e].rate))
  /\ UNCHANGED <<currentTime, ctxState, pcmSampleRate, arrived>>
  /\ lastTick' = NoTick
  /\ UNCHANGED restVars

ReceiveInterruption_NoReset ==
  /\ wsState = "open" /\ arrived < MaxEvents
  /\ arrived' = arrived + 1
  /\ timeline' = Append(timeline, [ev |-> arrived + 1, kind |-> "reset", how |-> "none",
                                    at |-> currentTime, start |-> 0, dur |-> 0])
  /\ UNCHANGED <<currentTime, ctxState, nextTime, pcmSampleRate, chunk>>
  /\ lastTick' = NoTick
  /\ UNCHANGED restVars

\* ws.onmessage, type 'interruption': player.reset()
ReceiveInterruption ==
  /\ wsState = "open" /\ arrived < MaxEvents
  /\ arrived' = arrived + 1
  /\ nextTime' = 0
  /\ timeline' = Append(timeline, [ev |-> arrived + 1, kind |-> "reset", how |-> "none",
                                    at |-> currentTime, start |-> 0, dur |-> 0])
  /\ UNCHANGED <<currentTime, ctxState, pcmSampleRate, chunk>>
  /\ lastTick' = NoTick
  /\ UNCHANGED restVars

ReceiveMetadata_NoDefault(fmt) ==
  /\ wsState = "open" /\ arrived < MaxEvents
  /\ arrived' = arrived + 1
  /\ pcmSampleRate' = parsePcmSampleRate(fmt)
  /\ UNCHANGED <<currentTime, ctxState, nextTime, chunk, timeline>>
  /\ lastTick' = [NoTick EXCEPT !.msg = [on |-> "agent", fmt |-> fmt,
                                         kind |-> "conversation_initiation_metadata"]]
  /\ UNCHANGED restVars

\* ws.onmessage, type 'conversation_initiation_metadata'
ReceiveMetadata(fmt) ==
  /\ wsState = "open" /\ arrived < MaxEvents
  /\ arrived' = arrived + 1
  /\ pcmSampleRate' = IF parsePcmSampleRate(fmt) # 0 THEN parsePcmSampleRate(fmt)
                       ELSE 16000
  /\ UNCHANGED <<currentTime, ctxState, nextTime, chunk, timeline>>
  /\ lastTick' = [NoTick EXCEPT !.msg = [on |-> "agent", fmt |-> fmt,
                                         kind |-> "conversation_initiation_metadata"]]
  /\ UNCHANGED restVars

\* the audio clock runs
PlayClock ==
  /\ currentTime + PlayStep <= MaxPlayTime
  /\ currentTime' = currentTime + PlayStep
  /\ UNCHANGED <<ctxState, nextTime, pcmSampleRate, arrived, chunk, timeline>>
  /\ lastTick' = NoTick
  /\ UNCHANGED restVars

InitPlayback ==
  /\ InitSession /\ ctxState \in {"suspended", "running"}
  /\ pureIn = "none" /\ pureOut = NotRun

NextPlayback ==
  \/ AgentWsOpen
  \/ \E p \in Payloads : ReceiveAudio(p)
  \/ \E e \in EventIds : ResumeDone(e)
  \/ \E e \in EventIds : DecodeDone(e)
  \/ ReceiveInterruption
  \/ \E fmt \in Formats : ReceiveMetadata(fmt)
  \/ PlayClock

SpecPlayback == InitPlayback /\ [][NextPlayback]_vars

\* ---------------------------------------------- the classifier on its own
Fragments ==
  {<<>>, <<"y", "e", "s">>, <<"n", "o">>, <<"Y", "E", "S">>, <<"N", "o">>,
   <<"k", "n", "o", "w">>, <<"o", "k">>, <<"o", "k", "a", "y">>,
   <<"d", "o", " ", "n", "o", "t">>, <<"d", "o", " ", "i", "t">>,
   <<"d", "o", "n", "'", "t">>, <<"n", "o", "p", "e">>, <<"n", "o", "1">>,
   <<"c", "o", "n", "f", "i", "r", "m", "e", "d">>, <<"n", "e", "v", "e", "r">>,
   <<"n", "o", "b", "o", "d", "y">>, <<"y", "e", "a", "h">>}
Separators ==
  {<<>>, <<" ">>, <<",">>, <<"_">>, <<"'">>, <<" ", "\t">>,
   <<",", " ", "p", "l", "e", "a", "s", "e", " ", "p", "r", "i", "n", "t", " ">>}
ClassifyInputs ==
  {a \o sep \o b : a \in Fragments, sep \in Separators, b \in Fragments} \cup
  {<<"y", "e", "s", ",", " ", "p", "l", "e", "a", "s", "e", " ", "p", "r", "i", "n", "t", " ", "i", "t">>,
   <<"n", "o", ",", " ", "c", "a", "n", "c", "e", "l", " ", "t", "h", "a", "t">>,
   <<"y", "e", "s", " ", "b", "u", "t", " ", "n", "o">>, <<" ", " ">>,
   <<"g", "o", " ", "a", "h", "e", "a", "d">>, <<"D", "o", " ", " ", "N", "o", "t">>,
   <<"s", "t", "o", "p", " ", "i", "t", " ", "n", "o", "w">>,
   <<"u", "n", "s", "u", "r", "e">>, <<"s", "u", "r", "e">>}

InitClassify ==
  InitSession /\ ctxState = "running" /\ pureIn \in ClassifyInputs /\ pureOut = NotRun

Classify ==
  /\ ~pureOut.done
  /\ pureOut' = [done |-> TRUE, val |-> detectYesNo(pureIn)]
  /\ UNCHANGED <<pureIn, host, pageVars, lastTick, wsState, isStopped, stopPc, agentOut>>
  /\ UNCHANGED <<gateVars, capVars, playVars, ctlVars>>

SpecClassify == InitClassify /\ [][Classify]_vars

\* ------------------------------------------ inbound messages, the rest
\* texts carried by user_transcript and agent_response events
AgentTexts == {<<>>, <<" ">>, <<"h", "i">>, <<" ", "g", "o", " ">>}

\* Agent Channel messages that reach neither the player nor the orchestrator:
\* binary frames, text that is not JSON, the JSON text null, events of a type
\* outside the known list, error events and the two kinds of transcript
AgentMessages ==
  {[on |-> "agent", kind |-> k, text |-> <<>>] :
     k \in {"binary", "badjson", "null", "unknown", "error"}}
  \cup {[on |-> "agent", kind |-> k, text |-> t] :
          k \in {"user_transcript", "agent_response"}, t \in AgentTexts}

AgentCallbacks_UnknownIsError(m) ==
  CASE m.kind \in {"binary", "badjson"} -> <<>>
    [] m.kind = "null" -> <<"onEvent">>
    [] m.kind \in {"error", "unknown"} -> <<"onEvent", "onError">>
    [] m.kind = "user_transcript" ->
         IF trim(m.text) # <<>> THEN <<"onEvent", "onUserTranscript">> ELSE <<"onEvent">>
    [] m.kind = "agent_response" ->
         IF trim(m.text) # <<>> THEN <<"onEvent", "onAgentResponse">> ELSE <<"onEvent">>

\* the callbacks of the caller that ws.onmessage invokes for m, in order: none
\* for a binary frame or a JSON.parse failure; onEvent for everything parsed
\* (for null the read of parsed.type then throws); onError for an error event;
\* onUserTranscript / onAgentResponse for a text that is not blank
AgentCallbacks(m) ==
  CASE m.kind \in {"binary", "badjson"} -> <<>>
    [] m.kind \in {"null", "unknown"} -> <<"onEvent">>
    [] m.kind = "error" -> <<"onEvent", "onError">>
    [] m.kind = "user_transcript" ->
         IF trim(m.text) # <<>> THEN <<"onEvent", "onUserTranscript">> ELSE <<"onEvent">>
    [] m.kind = "agent_response" ->
         IF trim(m.text) # <<>> THEN <<"onEvent", "onAgentResponse">> ELSE <<"onEvent">>

Calls(cb, name) == Cardinality({i \in DOMAIN cb : cb[i] = name})

\* onUserTranscript of the host page:
\* setUserTranscript((prev) => (prev ? `${prev} ${t}` : t))
OnUserTranscript(h, t) ==
  [h EXCEPT !.userTranscript = IF @ # <<>> THEN @ \o <<" ">> \o t ELSE t,
            !.heard = @ + 1]

\* ws.onmessage of the Agent Channel for the messages above
AgentWsMessage(m) ==
  /\ wsState = "open"
  /\ Calls(AgentCallbacks(m), "onUserTranscript") > 0 => host.heard < MaxTranscripts
  /\ lastTick' = [NoTick EXCEPT !.msg = m, !.cb = AgentCallbacks(m),
                                !.surfaced = Calls(AgentCallbacks(m), "onError")]
  /\ host' = IF Calls(AgentCallbacks(m), "onUserTranscript") > 0
             THEN OnUserTranscript(host, trim(m.text)) ELSE host
  /\ UNCHANGED <<pureVars, pageVars, playVars, ctlVars>>
  /\ UNCHANGED <<wsState, isStopped, stopPc, agentOut>>
  /\ UNCHANGED <<gateVars, capVars>>

\* messages on the socket of startSpeechStream; throws: the caller's
\* onTranscript raises
StreamMessages ==
  {[on |-> "stream", kind |-> k, throws |-> FALSE] :
     k \in {"binary", "badjson", "transcript", "error", "other"}}
  \cup {[on |-> "stream", kind |-> "transcript", throws |-> TRUE]}

StreamCallbacks_Silent(m) ==
  CASE m.kind \in {"binary", "other", "badjson"} -> <<>>
    [] m.kind = "error" -> <<"onError">>
    [] m.kind = "transcript" ->
         IF m.throws THEN <<"onTranscript", "onError">> ELSE <<"onTranscript">>

\* ws.onmessage of startSpeechStream: the catch block reports a JSON.parse
\* failure, and an exception of onTranscript, through safeOnError
StreamCallbacks(m) ==
  CASE m.kind \in {"binary", "other"} -> <<>>
    [] m.kind \in {"badjson", "error"} -> <<"onError">>
    [] m.kind = "transcript" ->
         IF m.throws THEN <<"onTranscript", "onError">> ELSE <<"onTranscript">>

StreamWsMessage(m) ==
  /\ stream.ws = "open"
  /\ stream' = [stream EXCEPT !.fed = FALSE]
  /\ lastTick' = [NoTick EXCEPT !.msg = m, !.cb = StreamCallbacks(m),
                                !.surfaced = Calls(StreamCallbacks(m), "onError")]
  /\ UNCHANGED <<teardown, streamRest>>

\* the three sockets and what arrives on them
NextInbound ==
  \/ AgentWsOpen
  \/ \E m \in AgentMessages : AgentWsMessage(m)
  \/ \E fmt \in Formats : arrived < MaxInboundPlay /\ ReceiveMetadata(fmt)
  \/ StreamWsOpen
  \/ \E m \in StreamMessages : StreamWsMessage(m)
  \/ NextCapture <= MaxInboundCaptures /\ captureYesNo(HostTimeout)
  \/ \E k \in CaptureIds : SpeechWsOpen(k)
  \/ \E k \in CaptureIds, m \in SpeechMessages : SpeechWsMessage(k, m)

SpecInbound == Init /\ [][NextInbound]_vars

\* the metadata event with every format text, and the audio around it
NextMetadata ==
  \/ AgentWsOpen
  \/ \E fmt \in FormatInputs : ReceiveMetadata(fmt)
  \/ \E p \in {q \in Payloads : q.bytes > 8000} : ReceiveAudio(p)
  \/ \E e \in EventIds : ResumeDone(e)
  \/ \E e \in EventIds : DecodeDone(e)
  \/ ReceiveInterruption

SpecMetadata == InitPlayback /\ [][NextMetadata]_vars

\* ------------------------------------------------- the host tool handler
\* tool names as the agent sends them: tools of the page, and others
HostToolNames ==
  {"print_text", "start_print_job", "read_current_screen", "dance", " "}

\* tools of the page whose handlers are left out here
OtherTools == {"confirm_action", "open_file_picker", "set_print_settings",
               "cancel_print_job"}

\* (name || '').trim() for the names above
TrimName(name) == IF name = " " THEN "" ELSE name

\* the parameters of a print call: each is undefined or a text
NoParams == [text |-> Absent, content |-> Absent, message |-> Absent]
Params ==
  {NoParams,
   [NoParams EXCEPT !.text = Str(<<"a">>), !.content = Str(<<"b">>)],
   [NoParams EXCEPT !.text = Str(<<>>), !.content = Str(<<"b">>)],
   [NoParams EXCEPT !.text = Str(<<" ">>)],
   [NoParams EXCEPT !.content = Str(<<"b">>), !.message = Str(<<"c">>)],
   [NoParams EXCEPT !.message = Str(<<"c">>)]}

\* a ?? b
Nullish(a, b) == IF a.present THEN a ELSE b

ChosenText_TextOnly(params, s) ==
  LET raw == trim(Nullish(params.text, Str(<<>>)).text)
      spoken == trim(s)
  IN IF raw # <<>> THEN raw ELSE spoken

\* raw || spoken, with
\* raw = String(params?.text ?? params?.content ?? params?.message ?? '').trim()
\* and spoken = String(s.userTranscript ?? '').trim()
ChosenText(params, s) ==
  LET raw == trim(Nullish(params.text,
                    Nullish(params.content, Nullish(params.message, Str(<<>>)))).text)
      spoken == trim(s)
  IN IF raw # <<>> THEN raw ELSE spoken

\* printFromText up to its first await: no request for an empty text, else the
\* conversion request
printFromText(textToPrintRaw) ==
  LET textToPrint == trim(textToPrintRaw) IN
    IF textToPrint = <<>>
    THEN [st |-> "returned", text |-> <<>>, requests |-> 0, result |-> "no_text"]
    ELSE [st |-> "converting", text |-> textToPrint, requests |-> 1, result |-> "none"]

StartJob_UnknownRaises(name, params, s) ==
  LET toolName == TrimName(name) IN
    IF toolName = "read_current_screen"
    THEN [st |-> "returned", text |-> <<>>, requests |-> 0, result |-> "screen"]
    ELSE IF toolName \in {"start_print_job", "print_text"}
    THEN printFromText(ChosenText(params, s))
    ELSE [st |-> "returned", text |-> <<>>, requests |-> 0, result |-> "raised"]

\* onClientToolCall up to its first await or its return; s is
\* uiStateRef.current.userTranscript
StartJob(name, params, s) ==
  LET toolName == TrimName(name) IN
    IF toolName = "read_current_screen"
    THEN [st |-> "returned", text |-> <<>>, requests |-> 0, result |-> "screen"]
    ELSE IF toolName \in {"start_print_job", "print_text"}
    THEN printFromText(ChosenText(params, s))
    ELSE [st |-> "returned", text |-> <<>>, requests |-> 0, result |-> "unknown_tool"]

\* what the promise of the handler settles with
Outcome(job) == IF job.result = "raised" THEN "throws" ELSE "value"

\* the page renders: uiStateRef.current = { ..., userTranscript }
HostRender ==
  /\ host.ref # host.userTranscript
  /\ host' = [host EXCEPT !.ref = host.userTranscript]
  /\ lastTick' = NoTick
  /\ UNCHANGED <<pureVars, pageVars, playVars, ctlVars>>
  /\ UNCHANGED <<wsState, isStopped, stopPc, agentOut>>
  /\ UNCHANGED <<gateVars, capVars>>

\* a client_tool_call event reaches onClientToolCall
HostToolCall(name, params) ==
  /\ TrimName(name) \notin OtherTools
  /\ NextCall # 0 /\ NextCall <= MaxHostCalls
  /\ OnToolCall(name, TRUE)
  /\ host' = [host EXCEPT !.job[NextCall] = StartJob(name, params, host.ref)]
  /\ lastTick' = [NoTick EXCEPT !.msg = [on |-> "agent", kind |-> "client_tool_call",
                                          params |-> params]]

ConvertResults == {"failed", "demo", "dots"}

\* fetchApi('/') has settled: null, dots in demo mode, or dots, and then the
\* print request goes out
AfterConvert(job, r) ==
  CASE r = "failed" -> [job EXCEPT !.st = "returned", !.result = "convert_failed"]
    [] r = "demo" -> [job EXCEPT !.st = "returned", !.result = "started_demo"]
    [] r = "dots" -> [job EXCEPT !.st = "printing", !.requests = @ + 1]

HostConvertDone(c, r) ==
  /\ host.job[c].st = "converting"
  /\ host' = [host EXCEPT !.job[c] = AfterConvert(@, r)]
  /\ lastTick' = NoTick
  /\ UNCHANGED <<pureVars, pageVars, playVars, ctlVars>>
  /\ UNCHANGED <<wsState, isStopped, stopPc, agentOut>>
  /\ UNCHANGED <<gateVars, capVars>>

\* printDots has settled
HostPrintDone(c, started) ==
  /\ host.job[c].st = "printing"
  /\ host' = [host EXCEPT !.job[c] =
                [@ EXCEPT !.st = "returned",
                          !.result = IF started THEN "started" ELSE "print_failed"]]
  /\ lastTick' = NoTick
  /\ UNCHANGED <<pureVars, pageVars, playVars, ctlVars>>
  /\ UNCHANGED <<wsState, isStopped, stopPc, agentOut>>
  /\ UNCHANGED <<gateVars, capVars>>

\* the handler has returned, its locals are gone: the orchestrator replies
HostFinish(c) ==
  /\ host.job[c].st = "returned"
  /\ OnHandlerFinish(c, Outcome(host.job[c]))
  /\ host' = [host EXCEPT !.job[c].st = "replied", !.job[c].text = <<>>]

UserTranscripts ==
  {m \in AgentMessages : m.kind = "user_transcript" /\ m.text \in {<<" ">>, <<" ", "g", "o", " ">>}}

NextHost ==
  \/ AgentWsOpen
  \/ \E m \in UserTranscripts : AgentWsMessage(m)
  \/ HostRender
  \/ \E n \in HostToolNames, params \in Params : HostToolCall(n, params)
  \/ \E c \in CallIds, r \in ConvertResults : HostConvertDone(c, r)
  \/ \E c \in CallIds, started \in BOOLEAN : HostPrintDone(c, started)
  \/ \E c \in CallIds : HostFinish(c)

SpecHost == Init /\ [][NextHost]_vars

\* ------------------------------------------- the start of a controller
\* everything but the start functions and the host page's own state
appVars == <<wsState, isStopped, stopPc, agentOut, gateVars, capVars, playVars,
             ctlVars, pureVars, host>>

\* the handlers of the socket are assigned once the start function has got past
\* its awaits
Registered(l) == l.pc = "ready"

\* what the caller is told of a socket event: onStatus('connected') or onOpen,
\* onStatus('disconnected') or onClose, onError, and the effect of a message
Callback(ev) ==
  CASE ev = "open" -> "connected"
    [] ev = "close" -> "disconnected"
    [] ev = "error" -> "error"
    [] ev = "message" -> "message"

\* an event of the socket: the handler runs if there is one, else nothing does
Deliver(l, ev) ==
  IF Registered(l) THEN [l EXCEPT !.seen = Append(@, Callback(ev))]
  ELSE [l EXCEPT !.lost = @ \cup {ev}]

SetLaunch(c, l) ==
  /\ launch' = [launch EXCEPT ![c] = l]
  /\ lastTick' = NoTick
  /\ UNCHANGED <<page, appVars>>

\* the start function up to "await navigator.mediaDevices.getUserMedia"
StartController(c) ==
  /\ launch[c].pc = "idle"
  /\ SetLaunch(c, [launch[c] EXCEPT
                     !.pc = "mic", !.ws = "connecting",
                     !.seen = IF c = "agent" THEN <<"connecting">> ELSE <<>>])

\* getUserMedia is fulfilled; the agent controller then awaits
\* audioContext.resume() if the context is suspended
MicGranted(c, suspended) ==
  /\ launch[c].pc = "mic"
  /\ SetLaunch(c, [launch[c] EXCEPT
                     !.mic = "held",
                     !.pc = IF c = "agent" /\ suspended THEN "resume" ELSE "ready"])

\* getUserMedia is rejected: the start function throws
MicDenied(c) ==
  /\ launch[c].pc = "mic"
  /\ SetLaunch(c, [launch[c] EXCEPT !.pc = "failed"])

LaunchResumeDone(c) ==
  /\ launch[c].pc = "resume"
  /\ SetLaunch(c, [launch[c] EXCEPT !.pc = "ready", !.resumed = TRUE])

LaunchWsOpen(c) ==
  /\ launch[c].ws = "connecting"
  /\ SetLaunch(c, Deliver([launch[c] EXCEPT !.ws = "open"], "open"))

LaunchWsMessage(c) ==
  /\ launch[c].ws = "open" /\ launch[c].msgs < MaxLaunchMessages
  /\ SetLaunch(c, Deliver([launch[c] EXCEPT !.msgs = @ + 1], "message"))

LaunchWsError(c) ==
  /\ launch[c].ws \in {"connecting", "open"}
  /\ SetLaunch(c, Deliver([launch[c] EXCEPT !.ws = "closing"], "error"))

LaunchWsClose(c) ==
  /\ launch[c].ws \in {"connecting", "open", "closing"}
  /\ SetLaunch(c, Deliver([launch[c] EXCEPT !.ws = "closed"], "close"))

NextLaunch ==
  \/ \E c \in Controllers : StartController(c)
  \/ \E c \in Controllers, suspended \in BOOLEAN : MicGranted(c, suspended)
  \/ \E c \in Controllers : MicDenied(c)
  \/ \E c \in Controllers : LaunchResumeDone(c)
  \/ \E c \in Controllers : LaunchWsOpen(c)
  \/ \E c \in Controllers : LaunchWsMessage(c)
  \/ \E c \in Controllers : LaunchWsError(c)
  \/ \E c \in Controllers : LaunchWsClose(c)

SpecLaunch == Init /\ [][NextLaunch]_vars

\* --------------------------------------- the host page: start, stop, demo
SetPage(p) ==
  /\ page' = p
  /\ lastTick' = NoTick
  /\ UNCHANGED <<launch, appVars>>

NextConv == IF \E n \in ConvIds : page.conv[n].st = "none"
            THEN CHOOSE n \in ConvIds :
                   page.conv[n].st = "none"
                     /\ \A m \in ConvIds : m < n => page.conv[m].st # "none"
            ELSE 0

\* stopVoiceAgent up to "await controller.stop()", with the agentController of
\* the render it was created in; stop() releases the microphone at once
stopVoiceAgent(p, controller) ==
  [p EXCEPT !.agentController = 0, !.isListening = FALSE,
            !.conv = [n \in ConvIds |->
                        IF n = controller /\ @[n].st = "active"
                        THEN [@[n] EXCEPT !.st = "stopping"] ELSE @[n]]]

\* the Start button: startVoiceAgent up to "await startElevenAgentConversation";
\* the handlers it passes close over this render's demoMode and agentController
PageStart ==
  /\ ~page.isListening
  /\ NextConv # 0
  /\ SetPage([page EXCEPT
                !.isListening = TRUE, !.lastRequest = "start",
                !.conv[NextConv] = [st |-> "starting", demoMode |-> page.demoMode,
                                    agentController |-> page.agentController]])

\* the conversation has started: setAgentController(controller)
PageStartDone(n) ==
  /\ page.conv[n].st = "starting"
  /\ SetPage([page EXCEPT !.conv[n].st = "active", !.agentController = n])

\* the start has thrown: toast, then stopVoiceAgent() of the same render
PageStartFail(n) ==
  /\ page.conv[n].st = "starting"
  /\ SetPage(stopVoiceAgent([page EXCEPT !.conv[n].st = "failed"],
                            page.conv[n].agentController))

\* the Stop button, shown while isListening
PageStop ==
  /\ page.isListening
  /\ SetPage([stopVoiceAgent(page, page.agentController) EXCEPT !.lastRequest = "stop"])

\* controller.stop() has settled
PageStopDone(n) ==
  /\ page.conv[n].st = "stopping"
  /\ SetPage([page EXCEPT !.conv[n].st = "stopped"])

\* demo mode is switched on or off
PageSetDemo(d) ==
  /\ page.demoMode # d
  /\ SetPage([page EXCEPT !.demoMode = d])

PrinterPaths == {"/print_dots", "/stop_print", "/pause_print", "/resume_print"}

\* onPrint / onStop / onPause / onResume and the functions of printerActions
\* with the demoMode they see: nothing goes out in demo mode, else one request;
\* demo of the request is the page's demo mode at that moment
PrinterAction(p, path, demoMode) ==
  IF demoMode THEN [p EXCEPT !.blocked = TRUE]
  ELSE [p EXCEPT !.blocked = FALSE,
                 !.requests = Append(@, [path |-> path, demo |-> p.demoMode])]

\* a button of the page: the handler of the current render
PageButton(path) ==
  /\ Len(page.requests) < MaxRequests
  /\ SetPage(PrinterAction(page, path, page.demoMode))

\* the printer request an agent tool leads to
ToolPaths ==
  [print_text |-> {"/print_dots"}, start_print_job |-> {"/print_dots"},
   set_print_settings |-> PrinterPaths, cancel_print_job |-> {"/stop_print"}]

\* a tool call of conversation n reaches the handler that startVoiceAgent passed
PageToolCall(n, tool, path) ==
  /\ page.conv[n].st = "active"
  /\ path \in ToolPaths[tool]
  /\ Len(page.requests) < MaxRequests
  /\ SetPage(PrinterAction(page, path, page.conv[n].demoMode))

NextPage ==
  \/ PageStart
  \/ \E n \in ConvIds : PageStartDone(n)
  \/ \E n \in ConvIds : PageStartFail(n)
  \/ PageStop
  \/ \E n \in ConvIds : PageStopDone(n)
  \/ \E d \in BOOLEAN : PageSetDemo(d)
  \/ \E path \in PrinterPaths : PageButton(path)
  \/ \E n \in ConvIds, tool \in DOMAIN ToolPaths, path \in PrinterPaths :
       PageToolCall(n, tool, path)

SpecPage == Init /\ [][NextPage]_vars

\* ---------------------------------------------------- downsampleTo16k
OutSampleRate == 16000

\* amplitudes of the input block (any grid of sample values; means are kept
\* as exact fractions, the rounding of the Float32Array store is left out)
SampleValues == {0 - 3, 1, 4}
SourceRates == {16000, 32000, 48000, 44100, 24000, 8000}
Blocks == UNION {[1..n -> SampleValues] : n \in 0..MaxBlock}

\* Math.round(p / q) for p >= 0, q > 0: halves go up
RoundDiv(p, q) == (2 * p + q) \div (2 * q)

\* a Float32Array element as the fraction sum / n
Exact(x) == [sum |-> x, n |-> 1]

NextOffset_Floor(offsetResult, rate) == ((offsetResult + 1) * rate) \div OutSampleRate

\* nextOffsetBuffer = Math.round((offsetResult + 1) * sampleRateRatio)
NextOffset(offsetResult, rate) == RoundDiv((offsetResult + 1) * rate, OutSampleRate)

Average_NoDivide(acc, count) == Exact(acc)

\* result[offsetResult] = count > 0 ? acc / count : 0
Average(acc, count) == IF count > 0 THEN [sum |-> acc, n |-> count] ELSE Exact(0)

\* the for loop: acc and count over input[i], offsetBuffer <= i < upto, i < length
RECURSIVE Accumulate(_, _, _, _, _)
Accumulate(input, i, upto, acc, count) ==
  IF i < upto /\ i < Len(input)
  THEN Accumulate(input, i + 1, upto, acc + input[i + 1], count + 1)
  ELSE [acc |-> acc, count |-> count]

\* the while loop over offsetResult
RECURSIVE Downsample(_, _, _, _, _)
Downsample(input, rate, newLength, offsetResult, offsetBuffer) ==
  IF ~(offsetResult < newLength) THEN <<>>
  ELSE LET nextOffsetBuffer == NextOffset(offsetResult, rate)
           w == Accumulate(input, offsetBuffer, nextOffsetBuffer, 0, 0)
       IN <<Average(w.acc, w.count)>> \o
            Downsample(input, rate, newLength, offsetResult + 1, nextOffsetBuffer)

downsampleTo16k(input, inSampleRate) ==
  IF inSampleRate = OutSampleRate THEN [i \in DOMAIN input |-> Exact(input[i])]
  ELSE Downsample(input, inSampleRate,
                  RoundDiv(Len(input) * OutSampleRate, inSampleRate), 0, 0)

InitResample ==
  /\ InitSession /\ ctxState = "running"
  /\ pureIn \in [input : Blocks, rate : SourceRates]
  /\ pureOut = NotRun

Resample ==
  /\ ~pureOut.done
  /\ pureOut' = [done |-> TRUE, val |-> downsampleTo16k(pureIn.input, pureIn.rate)]
  /\ UNCHANGED <<pureIn, host, pageVars, lastTick, wsState, isStopped, stopPc, agentOut>>
  /\ UNCHANGED <<gateVars, capVars, playVars, ctlVars>>

SpecResample == InitResample /\ [][Resample]_vars

\* ------------------------------------------- floatTo16BitPCM and back
NegativeScale == 32768
PositiveScale == 32767
DecodeScale == 32768

\* a sample is the fraction num / den, or NaN
Frac(num, den) == [nan |-> FALSE, num |-> num, den |-> den]
NaN == [nan |-> TRUE, num |-> 0, den |-> 1]
PcmSamples ==
  {Frac(0, 1), Frac(1, 1), Frac(0 - 1, 1), Frac(1, 2), Frac(0 - 1, 2), Frac(9, 10),
   Frac(0 - 9, 10), Frac(1, 3), Frac(0 - 1, 3), Frac(12, 10), Frac(0 - 12, 10),
   Frac(1, 65534), Frac(0 - 3, 65536), Frac(99, 100), NaN}
PcmBlocks == UNION {[1..n -> PcmSamples] : n \in 0..MaxPcmLen}

\* Math.max(-1, Math.min(1, s)); NaN stays NaN
Clamp(s) ==
  IF s.nan THEN s
  ELSE IF s.num > s.den THEN Frac(1, 1)
  ELSE IF s.num < 0 - s.den THEN Frac(0 - 1, 1)
  ELSE s

\* the integer part of p / q, towards zero (q > 0)
Truncate(p, q) == IF p >= 0 THEN p \div q ELSE 0 - ((0 - p) \div q)

\* nearest integer to p / q, halves away from zero (q > 0)
RoundHalfAway(p, q) ==
  IF p >= 0 THEN (2 * p + q) \div (2 * q) ELSE 0 - ((2 * (0 - p) + q) \div (2 * q))

ToInt16_Rounded(s) ==
  IF s.nan THEN 0
  ELSE LET v == IF s.num < 0 THEN RoundHalfAway(s.num * NegativeScale, s.den)
                ELSE RoundHalfAway(s.num * PositiveScale, s.den)
       IN ((v + 32768) % 65536) - 32768

\* DataView.setInt16(offset, s < 0 ? s * 0x8000 : s * 0x7fff): ToInt16 of the
\* number, i.e. its integer part modulo 2^16 (NaN gives 0)
ToInt16(s) ==
  IF s.nan THEN 0
  ELSE LET v == IF s.num < 0 THEN Truncate(s.num * NegativeScale, s.den)
                ELSE Truncate(s.num * PositiveScale, s.den)
       IN ((v + 32768) % 65536) - 32768

Int16Bytes_BigEndian(v) == LET u == (v + 65536) % 65536 IN <<u \div 256, u % 256>>

\* the two bytes of an int16, little-endian
Int16Bytes(v) == LET u == (v + 65536) % 65536 IN <<u % 256, u \div 256>>

RECURSIVE floatTo16BitPCM(_)
floatTo16BitPCM(input) ==
  IF input = <<>> THEN <<>>
  ELSE Int16Bytes(ToInt16(Clamp(Head(input)))) \o floatTo16BitPCM(Tail(input))

\* view.getInt16(i * 2, true)
getInt16(bytes, i) ==
  LET u == bytes[2 * i + 1] + 256 * bytes[2 * i + 2] IN IF u >= 32768 THEN u - 65536 ELSE u

\* the PCM16 path of playBase64AudioChunk: channel[i] = s16 / 0x8000
DecodePcm16(bytes) ==
  [i \in 1..(Len(bytes) \div 2) |-> Frac(getInt16(bytes, i - 1), DecodeScale)]

InitPcm ==
  /\ InitSession /\ ctxState = "running"
  /\ pureIn \in PcmBlocks
  /\ pureOut = NotRun

EncodePcm ==
  /\ ~pureOut.done
  /\ pureOut' = [done |-> TRUE, val |-> floatTo16BitPCM(pureIn)]
  /\ UNCHANGED <<pureIn, host, pageVars, lastTick, wsState, isStopped, stopPc, agentOut>>
  /\ UNCHANGED <<gateVars, capVars, playVars, ctlVars>>

SpecPcm == InitPcm /\ [][EncodePcm]_vars

\* -------------------------------------------------------- properties

ResultsFor(c) ==
  {i \in DOMAIN agentOut :
     agentOut[i].type = "client_tool_result" /\ agentOut[i].tool_call_id = c}

Running == {c \in CallIds : calls[c].st = "running"}
Settled(k) == cap[k].st \in {"true", "false", "rejected"}

\* C1: inFlightToolCalls is never negative, and no mic frame goes to the Agent
\* Channel at a capture tick between the receipt of a tool call and the end of
\* the cooldown that follows its handler's completion (1200 ms / 200 ms).
C1_MicGate ==
  /\ inFlightToolCalls >= 0
  /\ lastTick.agent => (Running = {} /\ now >= quietUntil)

\* ticks inside the cooldown of two overlapping calls, both finished
C1_Witness ==
  /\ lastTick.fired /\ ~lastTick.agent /\ TickRuns
  /\ \A c \in CallIds : calls[c].st = "done"
  /\ \E c \in CallIds : calls[c].name = "confirm_action"
  /\ \E c \in CallIds : calls[c].name = "print_text"
  /\ now >= 800 /\ now < quietUntil

\* C2 as stated: a tick forwards the frame iff inFlightToolCalls == 0 and
\* now >= agentMicResumeAtMs, and nothing else decides.
C2_Original ==
  lastTick.fired =>
    (lastTick.agent <=> (inFlightToolCalls = 0 /\ now >= agentMicResumeAtMs))

\* C2 (amended): a tick forwards the frame to the Agent Channel iff the session
\* is not stopped, the Agent socket is open, inFlightToolCalls == 0 and
\* now >= agentMicResumeAtMs.
C2_Amended ==
  lastTick.fired =>
    (lastTick.agent <=> (/\ isStopped = FALSE
                         /\ wsState = "open"
                         /\ inFlightToolCalls = 0
                         /\ now >= agentMicResumeAtMs))

\* a frame forwarded after a cooldown has run out
C2_Witness ==
  /\ lastTick.fired /\ lastTick.agent
  /\ \E c \in CallIds : calls[c].st = "done"
  /\ agentMicResumeAtMs > 0 /\ now >= agentMicResumeAtMs

\* C3 as stated: whenever the capture's Transcription socket is open, every
\* tick sends its frame to it, whatever the gate and the Agent socket's state.
C3_SpeechAlwaysFed ==
  (lastTick.fired /\ FeedsSpeech) => lastTick.speech

\* C4 as stated: every tool call whose handler finished has exactly one
\* client_tool_result on the wire, whatever the socket state at that moment.
C4_Original ==
  \A c \in CallIds : calls[c].st = "done" => Cardinality(ResultsFor(c)) = 1

\* C4 (amended): a tool call with a tool name and a call id gets at most one
\* client_tool_result, carrying its call id and an is_error flag: exactly one
\* if the Agent socket is open when the handler finishes, none if it is not;
\* nothing is sent for a call still running or for an event without name or id.
C4_Amended ==
  /\ \A c \in CallIds :
       Cardinality(ResultsFor(c)) =
         IF calls[c].st = "done" /\ calls[c].open THEN 1 ELSE 0
  /\ \A i \in DOMAIN agentOut :
       agentOut[i].type = "client_tool_result" =>
         /\ agentOut[i].tool_call_id \in CallIds
         /\ agentOut[i].is_error \in BOOLEAN
         /\ agentOut[i].is_error = (calls[agentOut[i].tool_call_id].outcome # "value")

\* two overlapping calls answered in the reverse of their arrival order
C4_Witness ==
  /\ Len(agentOut) = 2
  /\ agentOut[1].type = "client_tool_result" /\ agentOut[1].tool_call_id = 2
  /\ agentOut[2].type = "client_tool_result" /\ agentOut[2].tool_call_id = 1
  /\ agentOut[1].is_error /\ ~agentOut[2].is_error

\* C5 as stated: when a handler finishes, agentMicResumeAtMs becomes exactly
\* now + cooldown and inFlightToolCalls goes down by one (floor 0).
C5_Original ==
  [][\A c \in CallIds :
       (calls[c].st = "running" /\ calls'[c].st = "done") =>
         /\ agentMicResumeAtMs' =
              now + (IF calls[c].name = "confirm_action" THEN 1200 ELSE 200)
         /\ inFlightToolCalls' =
              (IF inFlightToolCalls >= 1 THEN inFlightToolCalls - 1 ELSE 0)]_vars

\* C5 (amended): when a handler finishes, agentMicResumeAtMs becomes the larger
\* of its previous value and now + cooldown (1200 ms for confirm_action, 200 ms
\* otherwise), and inFlightToolCalls goes down by one (floor 0).
C5_Amended ==
  [][\A c \in CallIds :
       (calls[c].st = "running" /\ calls'[c].st = "done") =>
         LET target == now + (IF calls[c].name = "confirm_action" THEN 1200 ELSE 200)
         IN /\ agentMicResumeAtMs' =
                 (IF agentMicResumeAtMs > target THEN agentMicResumeAtMs ELSE target)
            /\ inFlightToolCalls' =
                 (IF inFlightToolCalls >= 1 THEN inFlightToolCalls - 1 ELSE 0)]_vars

\* print_text finished after confirm_action, inside the latter's cooldown
C5_Witness ==
  /\ Len(agentOut) = 2
  /\ agentOut[1].type = "client_tool_result" /\ agentOut[2].type = "client_tool_result"
  /\ calls[agentOut[1].tool_call_id].name = "confirm_action"
  /\ calls[agentOut[2].tool_call_id].name = "print_text"
  /\ agentMicResumeAtMs > now + 200

\* C6: a handler failure is turned into a client_tool_result with is_error true
\* and the failure message; the call still leaves inFlightToolCalls and the
\* cooldown is still applied.
C6_HandlerFailure ==
  /\ \A c \in CallIds :
       (calls[c].st = "done" /\ calls[c].outcome = "throws") =>
         /\ calls[c].open => Cardinality(ResultsFor(c)) = 1
         /\ \A i \in ResultsFor(c) :
              agentOut[i].is_error /\ agentOut[i].result = "message"
  /\ inFlightToolCalls = Cardinality(Running)
  /\ agentMicResumeAtMs = quietUntil

\* a failed call answered, and a call answered successfully after it
C6_Witness ==
  /\ Len(agentOut) = 2
  /\ agentOut[1].type = "client_tool_result" /\ agentOut[1].is_error
  /\ calls[agentOut[1].tool_call_id].outcome = "throws"
  /\ agentOut[2].type = "client_tool_result" /\ ~agentOut[2].is_error
  /\ inFlightToolCalls = 0
  /\ lastTick.agent

\* C7 as stated: a capture is resolved only by its own transcripts, its own
\* timeout and its own channel, or by the capture that supersedes it; never by
\* an event of an earlier capture.
C7_Independent ==
  \A k \in CaptureIds :
    Settled(k) =>
      \/ cap[k].by.kind = "supersede" /\ cap[k].by.src > k /\ cap[k].st = "false"
      \/ cap[k].by.kind # "supersede" /\ cap[k].by.src = k

\* C8 as stated: no capture ever ends rejected.
C8_Original == \A k \in CaptureIds : cap[k].st # "rejected"

\* C8 (amended): a capture ends with a boolean (the classifier's verdict, false
\* on timeout, on channel close or when superseded), except that an error-kind
\* message or a socket error arriving on its own socket while it is pending
\* ends it rejected; once settled its outcome never changes.
C8_Kinds ==
  \A k \in CaptureIds :
    /\ cap[k].st \in {"none", "pending"} <=> cap[k].by.kind = "none"
    /\ cap[k].st = "rejected" <=> cap[k].by.kind \in {"error_msg", "sock_error"}
    /\ cap[k].st = "rejected" => cap[k].by.src = k
    /\ cap[k].by.kind \in {"timeout", "close", "supersede"} => cap[k].st = "false"
    /\ cap[k].by.kind = "verdict" => cap[k].st \in {"true", "false"}

C8_Amended ==
  /\ []C8_Kinds
  /\ [][\A k \in CaptureIds : Settled(k) => cap'[k] = cap[k]]_vars

\* a rejected capture and one decided by the classifier
C8_Witness ==
  /\ cap[1].st = "rejected" /\ cap[1].by.kind = "error_msg"
  /\ cap[2].st = "true" /\ cap[2].by.kind = "verdict"

\* C9 as stated: a settled capture has its socket closed and its timer
\* cancelled.
C9_SettledClosesSocket ==
  \A k \in CaptureIds : Settled(k) => (~Live(sock[k].st) /\ k \notin timers)

C11_Original ==
  [][\A k \in CaptureIds :
       (cap[k].st = "pending" /\ k \notin timers) =>
         cap'[k].st \in {"pending", "false"}]_vars

\* C11 (amended): every started capture is eventually settled; its timer is
\* armed with timeoutMs, or with 20000 ms when timeoutMs is absent, not a
\* number or not positive; a capture left pending by stop() ends false, or
\* rejected if its socket raises an error before its close event.
C11_Delay ==
  (\E k \in CaptureIds : cap[k].st # "none") =>
    LET asked == timerDelay.asked IN
      /\ (asked.type = "number" /\ asked.val >= 1) => timerDelay.ms = asked.val
      /\ ~(asked.type = "number" /\ asked.val >= 1) => timerDelay.ms = 20000

C11_Amended ==
  /\ \A k \in CaptureIds : (cap[k].st = "pending") ~> Settled(k)
  /\ []C11_Delay
  /\ [][\A k \in CaptureIds :
          (cap[k].st = "pending" /\ k \notin timers) =>
            \/ cap'[k].st \in {"pending", "false"}
            \/ cap'[k].st = "rejected" /\ cap'[k].by.kind = "sock_error"]_vars

\* stop() met a pending capture that was started with a non-numeric timeoutMs
C11_Witness ==
  /\ isStopped
  /\ timerDelay = [asked |-> [type |-> "string", val |-> 5000], ms |-> 20000]
  /\ cap[1].st = "pending" /\ 1 \notin timers /\ sock[1] = [st |-> "closing", term |-> 1]

\* C12: the classifier returns true iff the lowercased text has a whole-word
\* match of the affirmative set and none of the negative set, false iff it has
\* one of the negative set and none of the affirmative set, and is unresolved
\* when both, neither or an empty text match; "yes, please print it" gives
\* true, "no, cancel that" false, "yes but no" stays unresolved.
WholeWord(t, w) ==
  \E p \in DOMAIN t :
    LET q == p + Len(w) - 1 IN
      /\ q <= Len(t)
      /\ \A i \in 1..Len(w) : t[p + i - 1] = w[i]
      /\ p = 1 \/ ~WordChar(t[p - 1])
      /\ q = Len(t) \/ ~WordChar(t[q + 1])

C12_Classifier ==
  pureOut.done =>
    LET t == toLowerCase(pureIn)
        aff == \E w \in AffirmativeWords : WholeWord(t, w)
        neg == \E w \in NegativeWords : WholeWord(t, w)
    IN /\ pureOut.val = "yes" <=> (aff /\ ~neg)
       /\ pureOut.val = "no" <=> (neg /\ ~aff)
       /\ pureOut.val = "null" <=> ((aff /\ neg) \/ (~aff /\ ~neg) \/ t = <<>>)
       /\ pureOut.val \in {"yes", "no", "null"}
       /\ pureIn = <<"y", "e", "s", ",", " ", "p", "l", "e", "a", "s", "e", " ", "p", "r", "i", "n", "t", " ", "i", "t">> => pureOut.val = "yes"
       /\ pureIn = <<"n", "o", ",", " ", "c", "a", "n", "c", "e", "l", " ", "t", "h", "a", "t">> => pureOut.val = "no"
       /\ pureIn = <<"y", "e", "s", " ", "b", "u", "t", " ", "n", "o">> => pureOut.val = "null"

\* "YES, please print do not" was classified: both sets match, after lowercasing
C12_Witness ==
  /\ pureOut = [done |-> TRUE, val |-> "null"]
  /\ pureIn = <<"Y", "E", "S", ",", " ", "p", "l", "e", "a", "s", "e", " ", "p", "r", "i", "n", "t", " ", "d", "o", " ", "n", "o", "t">>

\* ---- the playback timeline
IsBuffer(i) == i \in DOMAIN timeline /\ timeline[i].kind = "buffer"
EndOf(i) == timeline[i].start + timeline[i].dur
\* the pointer a scheduling at position i finds: the end of the buffer before
\* it, or 0 (unset) at the start of the session and after a reset
PointerBefore(i) == IF IsBuffer(i - 1) THEN EndOf(i - 1) ELSE 0

C14_Original ==
  \A i \in DOMAIN timeline :
    (IsBuffer(i) /\ i + 1 \in DOMAIN timeline /\ timeline[i + 1].kind = "reset"
       /\ IsBuffer(i + 2)) =>
      /\ timeline[i + 2].start = timeline[i + 2].at
      /\ timeline[i + 2].start = Max(timeline[i + 2].at, timeline[i].start)

\* C14 (amended): an interruption resets the pointer to unset, and the buffer
\* scheduled next starts at the current output time whatever the pointer was;
\* that is max(currentTime, t0) only for a previous start t0 that is not in the
\* future, which fails for a buffer that was queued behind an earlier one.
C14_Amended ==
  /\ (timeline # <<>> /\ timeline[Len(timeline)].kind = "reset") => nextTime = 0
  /\ \A i \in DOMAIN timeline :
        (timeline[i].kind = "reset" /\ IsBuffer(i + 1)) =>
          /\ timeline[i + 1].start = timeline[i + 1].at
          /\ \A j \in 1..(i - 1) :
                (IsBuffer(j) /\ timeline[j].start <= timeline[i + 1].at) =>
                  timeline[i + 1].start = Max(timeline[i + 1].at, timeline[j].start)

\* two buffers were queued up to 1000 ms, an interruption came at 250 ms and the
\* next buffer started at 250 ms, before the start of the second one
C14_Witness ==
  /\ Len(timeline) = 4
  /\ IsBuffer(1) /\ IsBuffer(2) /\ timeline[3].kind = "reset" /\ IsBuffer(4)
  /\ timeline[2].start = 500 /\ EndOf(2) = 1000
  /\ timeline[4].at = 250 /\ timeline[4].start = 250

\* C15: inbound events are handled strictly in arrival order (the handling of
\* one event, awaited decode included, completes before a later event takes
\* effect), and buffers are scheduled in the order of their audio events,
\* except across an interruption.
C15_ArrivalOrder ==
  /\ \A e \in EventIds : chunk[e].pc \in {"resume", "decode"} => arrived = e
  /\ \A i, j \in DOMAIN timeline :
        (i < j /\ \A k \in i..j : IsBuffer(k)) => timeline[i].ev < timeline[j].ev

\* C16: the format of a payload is resolved by an ordered fallback, first
\* success wins: PCM16 at the known rate if a rate is set, otherwise generic
\* decode, otherwise PCM16 mono at 16 kHz; at most one buffer per payload; a
\* payload failing every applicable stage is dropped and changes neither the
\* pointer, the gate state nor the handling of other events.
BuffersOf(e) == {i \in DOMAIN timeline : IsBuffer(i) /\ timeline[i].ev = e}

Expected(p, rate) ==
  IF p.b64 # "ok" THEN NoBuffer
  ELSE IF rate # 0
    THEN (IF p.bytes >= 2 THEN [how |-> "pcm", dur |-> ((p.bytes \div 2) * 1000) \div rate]
          ELSE NoBuffer)
  ELSE IF p.decodable THEN [how |-> "decoded", dur |-> p.decodedMs]
  ELSE IF p.bytes >= 2 THEN [how |-> "pcm16k", dur |-> (p.bytes \div 2) \div 16]
  ELSE NoBuffer

C16_Resolved ==
  \A e \in EventIds :
    /\ Cardinality(BuffersOf(e)) <= 1
    /\ chunk[e].pc # "done" => BuffersOf(e) = {}
    /\ chunk[e].pc = "done" =>
         LET want == Expected(chunk[e].payload, chunk[e].rate) IN
           IF want.how = "none" THEN BuffersOf(e) = {}
           ELSE \E i \in BuffersOf(e) :
                  timeline[i].how = want.how /\ timeline[i].dur = want.dur

C16_Fallback ==
  /\ C16_Resolved
  /\ nextTime = PointerBefore(Len(timeline) + 1)
  /\ inFlightToolCalls = 0 /\ agentMicResumeAtMs = 0

\* a payload that decodeAudioData refused was played as PCM16 at 16 kHz, and a
\* one-byte payload that failed both stages was dropped, with a chunk between
\* them that took the PCM path at the announced rate
C16_Witness ==
  \E a, b, c \in EventIds :
    /\ chunk[a].pc = "done" /\ chunk[a].payload.bytes = 16000 /\ chunk[a].rate = 0
    /\ \E i \in BuffersOf(a) : timeline[i].how = "pcm16k"
    /\ chunk[b].pc = "done" /\ chunk[b].payload.bytes = 1 /\ chunk[b].rate = 0
    /\ chunk[b].payload.b64 = "ok" /\ BuffersOf(b) = {}
    /\ chunk[c].pc = "done" /\ chunk[c].rate = 8000
    /\ \E i \in BuffersOf(c) : timeline[i].how = "pcm"

\* ---- stop() and the sockets
Count(seq, x) == Cardinality({i \in DOMAIN seq : seq[i] = x})
PcOf(c) == IF c = "agent" THEN stopPc ELSE stream.pc
StoppedOf(c) == IF c = "agent" THEN isStopped ELSE stream.isStopped
TokensOf(c) ==
  IF c = "agent" THEN Cardinality({i \in DOMAIN agentOut : agentOut[i].type = "terminate"})
  ELSE stream.term

\* C17: stop() is idempotent on either controller: whatever the number of calls,
\* also with a second call during the await of audioContext.close(), each
\* teardown step runs once, the socket close is requested exactly once and the
\* terminate token is sent at most once.
C17_Idempotent ==
  \A c \in Controllers :
    /\ \A x \in StepNames : Count(teardown[c].steps, x) <= 1
    /\ PcOf(c) = "done" => Count(teardown[c].steps, "ws.close") = 1
    /\ PcOf(c) # "done" => Count(teardown[c].steps, "ws.close") = 0
    /\ TokensOf(c) <= 1
    /\ StoppedOf(c) <=> teardown[c].calls >= 1
    /\ StoppedOf(c) <=> PcOf(c) # "idle"

\* stop() was called twice on both controllers; on the agent controller the
\* second call came while the first was awaiting audioContext.close()
C17_Witness ==
  /\ teardown["agent"].calls = 2 /\ stopPc = "awaiting"
  /\ teardown["agent"].steps = FirstSteps
  /\ teardown["stream"].calls = 2 /\ stream.pc = "done" /\ stream.term = 1
  /\ teardown["stream"].steps = AllSteps

\* C18: whatever subset of the teardown steps fails, every other step is still
\* attempted and stop() does not raise.
C18_BestEffort ==
  \A c \in Controllers :
    /\ ~teardown[c].raised
    /\ PcOf(c) = "idle" => teardown[c].steps = <<>>
    /\ PcOf(c) = "awaiting" => teardown[c].steps = FirstSteps
    /\ PcOf(c) = "done" => teardown[c].steps = AllSteps

\* on an open stream socket both the terminate send and ws.close() failed, and
\* on the agent socket ws.close() failed after the token went out; all steps ran
C18_Witness ==
  /\ stream.pc = "done" /\ stream.ws = "open" /\ stream.term = 0
  /\ teardown["stream"].steps = AllSteps
  /\ stopPc = "done" /\ wsState = "open" /\ TokensOf("agent") = 1
  /\ teardown["agent"].steps = AllSteps

\* C19 as stated: on every Transcription Channel socket that the client has
\* closed, the terminate token was sent once.
C19_Original ==
  /\ stream.pc = "done" => stream.term = 1
  /\ \A k \in CaptureIds :
        cap[k].by.kind \in {"verdict", "timeout", "supersede"} => sock[k].term = 1

\* C19 (amended): the token is sent at most once per socket, only together with
\* the client's close and only if the socket is OPEN at that moment (a socket
\* closed while connecting, or released on its own close event, gets none); no
\* PCM frame is sent on the socket after it.
C19_LastOutbound ==
  /\ stream.term <= 1
  /\ stream.term = 1 => ~Live(stream.ws)
  /\ stream.fed => (stream.term = 0 /\ stream.ws = "open" /\ ~stream.isStopped)
  /\ \A k \in CaptureIds : sock[k].term <= 1 /\ (sock[k].term = 1 => ~Live(sock[k].st))
  /\ lastTick.speech =>
        speechWs # 0 /\ sock[speechWs].term = 0 /\ sock[speechWs].st = "open"

C19_Amended ==
  /\ []C19_LastOutbound
  /\ [][(stream.pc = "awaiting" /\ stream'.pc = "done") =>
          stream'.term = (IF stream.ws = "open" THEN 1 ELSE 0)]_vars
  /\ [][\A k \in CaptureIds :
          (speechWs = k /\ speechWs' # k) =>
            /\ sock'[k].term =
                 sock[k].term +
                   (IF sock[k].st = "open" /\ sock'[k].st # "closed" THEN 1 ELSE 0)
            /\ ~Live(sock'[k].st)]_vars

\* the stream controller was stopped while its socket was still connecting (no
\* token), and a capture socket was closed while open (one token)
C19_Witness ==
  /\ stream.pc = "done" /\ stream.term = 0 /\ stream.ws = "closing"
  /\ sock[1].term = 1 /\ sock[1].st = "closing" /\ cap[1].by.kind = "verdict"

\* C20 as stated: every socket error is surfaced exactly once and the channel
\* is then no longer open.
C20_Original ==
  lastTick.error # "none" =>
    /\ lastTick.surfaced = 1
    /\ lastTick.error = "agent" => ~Live(wsState)
    /\ lastTick.error = "stream" => ~Live(stream.ws)

\* C20 (amended): an error of the Agent Channel socket or of the passive
\* captioning socket is surfaced exactly once through onError; an error of a
\* capture socket rejects the capture's promise once if it is still pending and
\* is otherwise absorbed; the socket is then not open and no tick streams to it.
C20_Surfaced ==
  /\ lastTick.error \in {"agent", "stream"} => lastTick.surfaced = 1
  /\ lastTick.error = "speech" => lastTick.surfaced \in {0, 1}
  /\ lastTick.error = "agent" => ~Live(wsState)
  /\ lastTick.error = "stream" => ~Live(stream.ws)
  /\ lastTick.agent => wsState = "open"
  /\ stream.fed => stream.ws = "open"

C20_Amended ==
  /\ []C20_Surfaced
  /\ [][lastTick'.error = "speech" =>
          /\ lastTick'.surfaced = 1 <=>
                \E k \in CaptureIds :
                  /\ cap[k].st = "pending"
                  /\ cap'[k] = [st |-> "rejected", by |-> [kind |-> "sock_error", src |-> k]]
          /\ \A k \in CaptureIds : sock'[k].st # sock[k].st => ~Live(sock'[k].st)]_vars

\* the socket of a capture that had already timed out fired an error event,
\* which reached nobody
C20_Witness ==
  /\ lastTick.error = "speech" /\ lastTick.surfaced = 0
  /\ cap[1].st = "false" /\ cap[1].by.kind = "timeout" /\ sock[1].st = "closing"

\* ---- the resampler and the PCM16 encoder
\* output sample o is the mean of the input samples a and b
MeanOf2(o, a, b) == 2 * o.sum = (a + b) * o.n

\* C26 as stated: from 32000 Hz, a block of n samples gives round(n/2) samples
\* and output i is the mean of the inputs 2i and 2i+1, for every n.
C26_Original ==
  (pureOut.done /\ pureIn.rate = 32000) =>
    LET in == pureIn.input
        out == pureOut.val
    IN /\ Len(out) = (Len(in) + 1) \div 2
       /\ \A i \in 0..(Len(out) - 1) :
            /\ 2 * i + 2 <= Len(in)
            /\ MeanOf2(out[i + 1], in[2 * i + 1], in[2 * i + 2])

\* C26 (amended): from 32000 Hz, a block of n samples gives round(n/2) samples
\* (halves up); output i is the mean of the inputs 2i and 2i+1 when both exist,
\* and for odd n the last output equals the last input sample alone.
C26_Amended ==
  (pureOut.done /\ pureIn.rate = 32000) =>
    LET in == pureIn.input
        out == pureOut.val
    IN /\ Len(out) = (Len(in) + 1) \div 2
       /\ \A i \in 0..(Len(out) - 1) :
            IF 2 * i + 2 <= Len(in)
            THEN MeanOf2(out[i + 1], in[2 * i + 1], in[2 * i + 2])
            ELSE /\ 2 * i + 1 = Len(in)
                 /\ out[i + 1].sum = in[Len(in)] * out[i + 1].n

\* three samples at 32000 Hz became the mean of the first two and the third
C26_Witness ==
  /\ pureOut.done
  /\ pureIn = [input |-> <<0 - 3, 1, 4>>, rate |-> 32000]
  /\ pureOut.val = <<[sum |-> 0 - 2, n |-> 2], [sum |-> 4, n |-> 1]>>

\* the window of output i in the reference box filter, as 0-based input indices
RefWindow(n, rate, i) ==
  {j \in 0..(n - 1) : /\ RoundDiv(i * rate, OutSampleRate) <= j
                      /\ j < RoundDiv((i + 1) * rate, OutSampleRate)}

RECURSIVE SetSum(_, _)
SetSum(in, w) ==
  IF w = {} THEN 0 ELSE LET j == CHOOSE j \in w : TRUE IN in[j + 1] + SetSum(in, w \ {j})

\* C27: at 16000 Hz the output is the input; otherwise, with ratio =
\* sourceRate/16000, the output has round(n/ratio) samples and output i is the
\* mean of the inputs with index in [round(i*ratio), round((i+1)*ratio)) clipped
\* to the block, or 0 for an empty window; the windows are disjoint and
\* consecutive.
C27_BoxFilter ==
  pureOut.done =>
    LET in == pureIn.input
        rate == pureIn.rate
        out == pureOut.val
        n == Len(in)
    IN IF rate = 16000 THEN out = [i \in DOMAIN in |-> [sum |-> in[i], n |-> 1]]
       ELSE /\ Len(out) = RoundDiv(n * 16000, rate)
            /\ \A i \in 0..(Len(out) - 1) :
                 LET w == RefWindow(n, rate, i) IN
                   IF w = {} THEN out[i + 1].sum = 0
                   ELSE out[i + 1].sum * Cardinality(w) = SetSum(in, w) * out[i + 1].n
            /\ \A i, k \in 0..(Len(out) - 1) :
                 i < k => \A a \in RefWindow(n, rate, i), b \in RefWindow(n, rate, k) : a < b
            /\ \A m \in 0..Len(out) :
                 UNION {RefWindow(n, rate, i) : i \in 0..(m - 1)} =
                   {j \in 0..(n - 1) : j < RoundDiv(m * rate, OutSampleRate)}

\* two samples at 8000 Hz gave four outputs, every second one from an empty
\* window
C27_Witness ==
  /\ pureOut.done
  /\ pureIn = [input |-> <<1, 4>>, rate |-> 8000]
  /\ pureOut.val = <<[sum |-> 1, n |-> 1], [sum |-> 0, n |-> 1],
                     [sum |-> 4, n |-> 1], [sum |-> 0, n |-> 1]>>

\* C28 as stated: every sample is clamped to [-1, 1], scaled by 32768 if
\* negative and by 32767 otherwise, and converted to int16 by rounding half away
\* from zero; the result is within [-32768, 32767] and written little-endian.
C28_Original ==
  pureOut.done =>
    /\ Len(pureOut.val) = 2 * Len(pureIn)
    /\ \A i \in DOMAIN pureIn :
         /\ getInt16(pureOut.val, i - 1) = ToInt16_Rounded(Clamp(pureIn[i]))
         /\ getInt16(pureOut.val, i - 1) \in (0 - 32768)..32767

\* q is the integer part of p / den (den > 0)
IntegerPart(q, p, den) ==
  IF p >= 0 THEN q >= 0 /\ q * den <= p /\ p - q * den < den
  ELSE q <= 0 /\ p <= q * den /\ q * den - p < den

\* C28 (amended): every sample is clamped to [-1, 1], scaled by 32768 if
\* negative and by 32767 otherwise, and converted to int16 by dropping the
\* fraction (towards zero: 16383.5 becomes 16383), NaN becoming 0; the result
\* is within [-32768, 32767] and written low byte first.
C28_Amended ==
  pureOut.done =>
    /\ Len(pureOut.val) = 2 * Len(pureIn)
    /\ \A i \in DOMAIN pureIn :
         LET s == pureIn[i]
             lo == pureOut.val[2 * i - 1]
             hi == pureOut.val[2 * i]
             q == IF hi >= 128 THEN lo + 256 * hi - 65536 ELSE lo + 256 * hi
             c == IF s.nan THEN s
                  ELSE IF s.num > s.den THEN [s EXCEPT !.num = s.den]
                  ELSE IF s.num < 0 - s.den THEN [s EXCEPT !.num = 0 - s.den]
                  ELSE s
         IN /\ lo \in 0..255 /\ hi \in 0..255
            /\ q \in (0 - 32768)..32767
            /\ s.nan => q = 0
            /\ (~s.nan /\ c.num < 0) => IntegerPart(q, c.num * 32768, c.den)
            /\ (~s.nan /\ c.num >= 0) => IntegerPart(q, c.num * 32767, c.den)

\* 0.5 was encoded as 16383 (ff 3f) and -1.2 as -32768 (00 80)
C28_Witness ==
  /\ pureOut.done
  /\ pureIn = <<Frac(1, 2), Frac(0 - 12, 10)>>
  /\ pureOut.val = <<255, 63, 0, 128>>

\* the distance between sample s and int16 value q decoded as q / 32768, in
\* units of 1 / (32768 * s.den)
RoundTripError(s, q) == s.num * 32768 - q * s.den

\* C29 as stated: a sample in [-1, 1], encoded and decoded through the PCM16
\* playback path, comes back within one quantization step (1/32768).
C29_Original ==
  pureOut.done =>
    \A i \in DOMAIN pureIn :
      LET s == pureIn[i]
          e == RoundTripError(s, DecodePcm16(pureOut.val)[i].num)
      IN (~s.nan /\ Clamp(s) = s) => (e <= s.den /\ 0 - e <= s.den)

\* C29 (amended): the decoded value is never farther from zero than the
\* sample; a negative sample comes back within less than one quantization
\* step, a non-negative one within less than two.
C29_Amended ==
  pureOut.done =>
    /\ Len(DecodePcm16(pureOut.val)) = Len(pureIn)
    /\ \A i \in DOMAIN pureIn :
         LET s == pureIn[i]
             d == DecodePcm16(pureOut.val)[i]
             e == RoundTripError(s, d.num)
         IN /\ d.den = 32768
            /\ (~s.nan /\ Clamp(s) = s /\ s.num >= 0) => (0 <= e /\ e < 2 * s.den)
            /\ (~s.nan /\ Clamp(s) = s /\ s.num < 0) => (e <= 0 /\ 0 - e < s.den)

\* 0.9 came back as 29490 / 32768, 1.2 steps below; -0.9 as -29491 / 32768
C29_Witness ==
  /\ pureOut.done
  /\ pureIn = <<Frac(9, 10), Frac(0 - 9, 10)>>
  /\ DecodePcm16(pureOut.val) = <<Frac(29490, 32768), Frac(0 - 29491, 32768)>>

\* ---- failures
\* C22 as stated: a tool result that cannot be delivered because the Agent
\* Channel is not open when the handler finishes is surfaced once to the caller.
C22_Original == lastTick.error = "tool_result" => lastTick.surfaced = 1

\* the number of client_tool_result messages sent for call c
SentFor(out, c) ==
  Cardinality({i \in DOMAIN out :
                 out[i].type = "client_tool_result" /\ out[i].tool_call_id = c})

\* C22 (amended): a tool result that cannot be delivered because the Agent
\* Channel is not open when the handler finishes is dropped without telling
\* anyone (no callback, no message), and nothing is sent for a call after its
\* handler has finished: no retry. A socket error is passed to onError once.
C22_Amended ==
  /\ [](lastTick.error = "tool_result" =>
          /\ lastTick.surfaced = 0 /\ lastTick.cb = <<>>
          /\ \E c \in CallIds : calls[c].st = "done" /\ ~calls[c].open /\ SentFor(agentOut, c) = 0)
  /\ [](lastTick.error = "agent" => lastTick.surfaced = 1)
  /\ [][lastTick'.error = "tool_result" => agentOut' = agentOut]_vars
  /\ [][\A c \in CallIds :
          calls[c].st = "done" =>
            (calls'[c] = calls[c] /\ SentFor(agentOut', c) = SentFor(agentOut, c))]_vars

\* the handler of the first call finished after the socket had closed: nothing
\* was sent and nobody was told; the second call, finished while the socket was
\* open, was answered
C22_Witness ==
  /\ lastTick.error = "tool_result" /\ lastTick.surfaced = 0
  /\ calls[1].st = "done" /\ ~calls[1].open /\ SentFor(agentOut, 1) = 0
  /\ calls[2].st = "done" /\ calls[2].open /\ SentFor(agentOut, 2) = 1
  /\ wsState = "closed"

\* ---- inbound messages
\* everything a message handler could change: all of the state but the record
\* of the last event
coreVars == <<now, wsState, isStopped, stopPc, agentOut, gateVars, capVars, playVars,
              ctlVars, auxVars>>

\* the socket the last message arrived on is open
StillOpen ==
  CASE lastTick.msg.on = "agent" -> wsState = "open"
    [] lastTick.msg.on = "stream" -> stream.ws = "open"
    [] lastTick.msg.on = "speech" -> \E k \in CaptureIds : sock[k].st = "open"
    [] OTHER -> TRUE

\* C21 as stated: a text message that is not valid JSON is dropped silently on
\* every socket: no callback is invoked for it and no state changes.
C21_Original ==
  [][lastTick'.msg.kind = "badjson" =>
       (lastTick'.cb = <<>> /\ lastTick'.surfaced = 0 /\ UNCHANGED coreVars)]_vars

\* C21 (amended): a text message that is not valid JSON changes no state and
\* leaves its socket open on every channel; the Agent Channel and the socket of
\* a yes/no capture invoke no callback for it, while the socket of the continuous
\* transcription stream reports it to onError exactly once and invokes nothing
\* else.
C21_Amended ==
  [][lastTick'.msg.kind = "badjson" =>
       /\ UNCHANGED coreVars
       /\ StillOpen'
       /\ IF lastTick'.msg.on = "stream"
          THEN lastTick'.cb = <<"onError">> /\ lastTick'.surfaced = 1
          ELSE lastTick'.cb = <<>> /\ lastTick'.surfaced = 0]_vars

\* malformed text has just arrived on the stream socket and was reported once,
\* in a session that has heard the user, knows its sample rate and has a
\* capture listening
C21_Witness ==
  /\ lastTick.msg = [on |-> "stream", kind |-> "badjson", throws |-> FALSE]
  /\ lastTick.cb = <<"onError">> /\ lastTick.surfaced = 1
  /\ stream.ws = "open" /\ wsState = "open"
  /\ host.heard > 0 /\ pcmSampleRate # 0
  /\ \E k \in CaptureIds : sock[k].st = "open" /\ speechCaptureResolve = k

\* C23: an Agent Channel event whose type is not one of the known kinds is
\* handed to onEvent and otherwise ignored: the mic gate, the playback timeline,
\* the known sample rate, the capture state and the outbound messages are as
\* before, no error is reported and the socket stays open. The JSON text null
\* ends the handler right after onEvent, with the same effect.
C23_UnknownIgnored ==
  [][lastTick'.msg.on = "agent" /\ lastTick'.msg.kind \in {"unknown", "null"} =>
       /\ UNCHANGED coreVars
       /\ lastTick'.cb = <<"onEvent">> /\ lastTick'.surfaced = 0
       /\ wsState' = "open" /\ ~isStopped']_vars

\* an unknown event has just been handled in a session that has heard the user,
\* knows its sample rate and has a capture listening
C23_Witness ==
  /\ lastTick.msg.on = "agent" /\ lastTick.msg.kind = "unknown"
  /\ lastTick.cb = <<"onEvent">>
  /\ wsState = "open" /\ host.heard = MaxTranscripts /\ pcmSampleRate = 8000
  /\ \E k \in CaptureIds : sock[k].st = "open" /\ speechCaptureResolve = k

\* ---- the known sample rate
\* the rate expected for each format text: the digits that follow pcm_
RefRate(f) ==
  CASE f = Str(<<"p", "c", "m", "_", "8", "0", "0", "0">>) -> 8000
    [] f = Str(<<" ", "P", "C", "M", "_", "2", "4", "0", "0", "0", " ">>) -> 24000
    [] f = Str(<<"p", "c", "m", "_", "0", "1", "6", "0", "0", "0">>) -> 16000
    [] f = Str(<<"p", "c", "m", "_", "4", "4", "1", "x">>) -> 441
    [] f = Str(<<"P", "c", "m", "_", "8", "	">>) -> 8
    [] OTHER -> 16000

\* C24: after a conversation_initiation_metadata event the known sample rate
\* is the positive integer that follows pcm_ in the output format, or 16000
\* when the format is absent or does not parse; once set the rate is never
\* unset, and a payload goes to the generic decoder only while no rate is known,
\* so never after the metadata.
C24_KnownRate ==
  /\ [][lastTick'.msg.kind = "conversation_initiation_metadata" =>
          pcmSampleRate' = RefRate(lastTick'.msg.fmt) /\ pcmSampleRate' > 0]_vars
  /\ [][pcmSampleRate # 0 => pcmSampleRate' # 0]_vars
  /\ [][\A e \in EventIds :
          (chunk[e].pc # "decode" /\ chunk'[e].pc = "decode") => pcmSampleRate' = 0]_vars
  /\ [][\A e \in EventIds :
          (/\ chunk[e].pc \in {"none", "resume"} /\ chunk'[e].pc = "done"
           /\ pcmSampleRate # 0 /\ chunk'[e].payload.bytes >= 2) =>
            /\ chunk'[e].rate = pcmSampleRate
            /\ Len(timeline') = Len(timeline) + 1
            /\ timeline'[Len(timeline')].ev = e
            /\ timeline'[Len(timeline')].how = "pcm"
            /\ timeline'[Len(timeline')].dur =
                 Duration(chunk'[e].payload.bytes, pcmSampleRate)]_vars

\* a payload that arrived before the metadata waits for the decoder, and one
\* that arrived after it was played from PCM at the announced rate
C24_Witness ==
  /\ lastTick.msg = NoMsg
  /\ pcmSampleRate = 24000
  /\ chunk[1].pc = "decode"
  /\ chunk[3].pc = "done" /\ chunk[3].rate = 24000

\* ---- the host page
\* the tools the host page implements
KnownTools == {"read_current_screen", "confirm_action", "open_file_picker",
               "set_print_settings", "start_print_job", "print_text",
               "cancel_print_job"}

Unknown(c) == calls[c].st \in {"running", "done"} /\ TrimName(calls[c].name) \notin KnownTools

\* the client_tool_result messages sent for call c
RepliesTo(c) ==
  {i \in DOMAIN agentOut :
     agentOut[i].type = "client_tool_result" /\ agentOut[i].tool_call_id = c}

\* C25: for a name that is none of the known tools the handler returns an
\* "unknown tool" value without raising and without any request, the
\* orchestrator answers with one client_tool_result whose is_error is false
\* (if the socket is open), and the reply neither closes nor stops the session.
C25_UnknownTool ==
  /\ [](\A c \in CallIds :
          Unknown(c) =>
            /\ host.job[c].result = "unknown_tool" /\ host.job[c].requests = 0
            /\ calls[c].st = "done" => calls[c].outcome = "value"
            /\ (calls[c].st = "done" /\ calls[c].open) =>
                 /\ Cardinality(RepliesTo(c)) = 1
                 /\ \A i \in RepliesTo(c) :
                      ~agentOut[i].is_error /\ agentOut[i].result = "value")
  /\ [][\A c \in CallIds :
          (Unknown(c) /\ calls[c].st = "running" /\ calls'[c].st = "done") =>
            (wsState' = wsState /\ isStopped' = isStopped
               /\ inFlightToolCalls' = inFlightToolCalls - 1)]_vars

\* the call of a tool the page does not have was answered without an error flag
C25_Witness ==
  /\ calls[1].st = "done" /\ calls[1].name = "dance" /\ calls[1].open
  /\ host.job[1].result = "unknown_tool" /\ host.job[1].st = "replied"
  /\ agentOut # <<>> /\ agentOut[Len(agentOut)] = ToolResult(1, "value", FALSE)
  /\ wsState = "open" /\ inFlightToolCalls = 0

\* the step is the arrival of a user_transcript event
IsTranscript(msg) == msg.on = "agent" /\ msg.kind = "user_transcript"

\* the step is the arrival of a call of one of the two print tools
IsPrintCall(c) ==
  /\ calls[c].st = "none" /\ calls'[c].st = "running"
  /\ calls'[c].name \in {"print_text", "start_print_job"}

\* C30 as stated: every non-empty user_transcript is surfaced and appended; a
\* print call prints its text parameter when that is non-empty and otherwise
\* the accumulated utterance as it stands when the call is handled (blank
\* counted as empty, texts compared after trimming).
C30_Original ==
  [][/\ (IsTranscript(lastTick'.msg) /\ trim(lastTick'.msg.text) # <<>>) =>
           Calls(lastTick'.cb, "onUserTranscript") = 1
     /\ \A c \in CallIds :
          IsPrintCall(c) =>
            host'.job[c].text =
              IF lastTick'.msg.params.text.present
                   /\ trim(lastTick'.msg.params.text.text) # <<>>
              THEN trim(lastTick'.msg.params.text.text)
              ELSE trim(host.userTranscript)]_vars

\* the first of the parameters text, content, message that is present
FirstGiven(params) ==
  CASE params.text.present -> params.text.text
    [] ~params.text.present /\ params.content.present -> params.content.text
    [] ~params.text.present /\ ~params.content.present /\ params.message.present ->
         params.message.text
    [] OTHER -> <<>>

\* C30 (amended): a user_transcript whose text is not blank is surfaced once,
\* trimmed, and appended (after a space) to the accumulated utterance; a blank
\* one is not surfaced. A print_text or start_print_job call prints the first
\* present of its parameters text, content and message, trimmed, when that is
\* not empty, and otherwise the utterance as of the page's latest render,
\* trimmed; when both are empty it returns started:false and no conversion or
\* print request is ever issued for it; otherwise exactly one conversion
\* request is issued at once.
C30_Amended ==
  /\ [][IsTranscript(lastTick'.msg) =>
          IF trim(lastTick'.msg.text) # <<>>
          THEN /\ Calls(lastTick'.cb, "onUserTranscript") = 1
               /\ host'.userTranscript =
                    IF host.userTranscript = <<>> THEN trim(lastTick'.msg.text)
                    ELSE host.userTranscript \o <<" ">> \o trim(lastTick'.msg.text)
          ELSE /\ Calls(lastTick'.cb, "onUserTranscript") = 0
               /\ host' = host]_vars
  /\ [][\A c \in CallIds :
          IsPrintCall(c) =>
            LET given == trim(FirstGiven(lastTick'.msg.params))
                text == IF given # <<>> THEN given ELSE trim(host.ref)
            IN /\ host'.job[c].text = text
               /\ IF text = <<>>
                  THEN host'.job[c].result = "no_text" /\ host'.job[c].requests = 0
                  ELSE host'.job[c].st = "converting" /\ host'.job[c].requests = 1]_vars
  /\ [](\A c \in CallIds : host.job[c].result = "no_text" => host.job[c].requests = 0)
  /\ [][\A c \in CallIds :
          host.job[c].result = "no_text" => host'.job[c].requests = 0]_vars

\* the user was heard twice and the page has rendered; a print call without
\* parameters took the whole utterance and its conversion request is out
C30_Witness ==
  /\ host.heard = MaxTranscripts
  /\ host.userTranscript = <<"g", "o", " ", "g", "o">>
  /\ host.ref = host.userTranscript
  /\ lastTick.msg.kind = "client_tool_call"
  /\ lastTick.msg.params = NoParams
  /\ host.job[1] = [st |-> "converting", text |-> <<"g", "o", " ", "g", "o">>,
                    requests |-> 1, result |-> "none"]

\* ---- the mic gate, continued
\* C31: inFlightToolCalls is the number of handlers that have started and not
\* finished: an accepted client_tool_call adds one before its handler runs, the
\* end of the handler takes one away whether it returned or threw, and a
\* client_tool_call without a tool name or call id changes nothing and is never
\* answered.
C31_InFlight ==
  /\ [](inFlightToolCalls = Cardinality(Running))
  /\ [](\A c \in CallIds : calls[c].st = "dropped" => SentFor(agentOut, c) = 0)
  /\ [][\A c \in CallIds :
          /\ (calls[c].st = "none" /\ calls'[c].st = "running") =>
               inFlightToolCalls' = inFlightToolCalls + 1
          /\ (calls[c].st = "running" /\ calls'[c].st = "done") =>
               inFlightToolCalls' = inFlightToolCalls - 1
          /\ (calls[c].st = "none" /\ calls'[c].st = "dropped") =>
               /\ inFlightToolCalls' = inFlightToolCalls
               /\ agentMicResumeAtMs' = agentMicResumeAtMs
               /\ agentOut' = agentOut]_vars

\* a handler has just thrown while another one is still running
C31_Witness ==
  /\ lastTick.finished = 1 /\ calls[1].outcome = "throws"
  /\ calls[2].st = "running"
  /\ inFlightToolCalls = 1

\* C32: agentMicResumeAtMs never decreases; the end of a call with the 200 ms
\* cooldown leaves a later resume time set by an earlier confirm_action as it is.
C32_NeverDecreases ==
  /\ [][agentMicResumeAtMs' >= agentMicResumeAtMs]_vars
  /\ [][\A c \in CallIds :
          (lastTick'.finished = c /\ calls[c].st = "running"
             /\ calls[c].name # "confirm_action"
             /\ agentMicResumeAtMs > now + ToolCooldownMs) =>
            agentMicResumeAtMs' = agentMicResumeAtMs]_vars

\* print_text has just finished inside the cooldown of a confirm_action that
\* finished before it
C32_Witness ==
  /\ lastTick.finished = 2 /\ calls[2].name = "print_text"
  /\ calls[1].st = "done" /\ calls[1].name = "confirm_action"
  /\ agentMicResumeAtMs = ConfirmCooldownMs
  /\ now = 2 * TimeStep
  /\ quietUntil = agentMicResumeAtMs

\* C33: a capture tick forwards the mic frame to the Agent Channel as soon as
\* every handler has finished and the last cooldown is over (socket open, session
\* not stopped); while a handler has not finished no tick forwards anything, and
\* only the end of the handler itself ends that: the passing of time never does.
C33_Resumes ==
  /\ []((lastTick.fired /\ Running = {} /\ now >= quietUntil
           /\ wsState = "open" /\ ~isStopped) => lastTick.agent)
  /\ []((lastTick.fired /\ Running # {}) => ~lastTick.agent)
  /\ [][\A c \in CallIds :
          (calls[c].st = "running" /\ calls'[c].st # "running") =>
            (lastTick'.finished = c /\ now' = now)]_vars

\* the first tick at the very end of the cooldown of a confirm_action forwards
\* the frame
C33_Witness ==
  /\ lastTick.fired /\ lastTick.agent
  /\ Running = {} /\ \E c \in CallIds : calls[c].st = "done"
  /\ quietUntil = ConfirmCooldownMs /\ now = quietUntil

\* ---- late events of a capture's socket
\* C34 as stated: the close event of the socket of a capture that is over never
\* resolves a newer capture that is pending, never closes that capture's socket
\* and never cancels its timer.
C34_LateEvents ==
  [][\A k, j \in CaptureIds :
       (/\ k < j
        /\ cap[k].st # "pending" /\ cap[j].st = "pending"
        /\ sock[k].st # "closed" /\ sock'[k].st = "closed") =>
         /\ cap'[j] = cap[j]
         /\ sock'[j] = sock[j]
         /\ (j \in timers') = (j \in timers)]_vars

\* ---- after stop()
\* C35: once stop() has been called on a controller no capture tick sends a PCM
\* frame, neither to the Agent Channel nor to a capture socket nor on the
\* captioning socket; the terminate token is the last message on the Agent
\* socket, so the result of a handler that finishes after stop() goes out before
\* the token or not at all.
C35_SilentAfterStop ==
  /\ [](isStopped => (~lastTick.agent /\ ~lastTick.speech))
  /\ [](stream.isStopped => ~stream.fed)
  /\ [](\A i \in DOMAIN agentOut : agentOut[i].type = "terminate" => i = Len(agentOut))
  /\ [][\A c \in CallIds :
          (isStopped /\ lastTick'.finished = c /\ calls[c].st = "running") =>
            IF stopPc = "awaiting" /\ wsState = "open"
            THEN Len(agentOut') = Len(agentOut) + 1
                   /\ agentOut'[Len(agentOut')].type = "client_tool_result"
                   /\ agentOut'[Len(agentOut')].tool_call_id = c
            ELSE agentOut' = agentOut]_vars

\* both controllers are stopped; one handler finished while stop() was waiting
\* for the audio context and its result went out before the token, the other
\* finished after the token and its result was dropped; a tick has just fired
C35_Witness ==
  /\ isStopped /\ stopPc = "done" /\ stream.isStopped
  /\ lastTick.fired /\ ~lastTick.agent /\ ~lastTick.speech
  /\ Len(agentOut) = 2
  /\ agentOut[1].type = "client_tool_result" /\ agentOut[2].type = "terminate"
  /\ \E c \in CallIds : calls[c].st = "done" /\ ~calls[c].open /\ SentFor(agentOut, c) = 0
  /\ \E k \in CaptureIds : sock[k].st = "open"

\* ---- audio pending at an interruption
\* C38 as stated: a chunk received before an interruption is never scheduled
\* after that interruption has been processed, and so never moves the timeline
\* pointer after the reset.
C38_NoStaleAudio ==
  \A i, j \in DOMAIN timeline :
    (i < j /\ timeline[i].kind = "reset" /\ IsBuffer(j)) => timeline[j].ev > timeline[i].ev

\* ---- the start of a controller
\* C36 as stated: no event of the socket is lost while the start function
\* awaits the microphone, and the caller sees 'connected' once the socket is
\* open and the controller is there.
C36_NoEventLost ==
  \A c \in Controllers :
    /\ launch[c].lost = {}
    /\ (launch[c].pc = "ready" /\ launch[c].ws = "open") =>
         \E i \in DOMAIN launch[c].seen : launch[c].seen[i] = "connected"

\* C37 as stated: when microphone acquisition fails, the socket created for the
\* session is closed.
C37_FailedStartClosesSocket ==
  \A c \in Controllers : launch[c].pc = "failed" => ~Live(launch[c].ws)

\* ---- the host page
ActiveConvs == {n \in ConvIds : page.conv[n].st = "active"}

\* C39 as stated: at most one agent conversation is active at a time, and once
\* stopVoiceAgent has completed with no start requested after it, none is.
C39_OneConversation ==
  /\ Cardinality(ActiveConvs) <= 1
  /\ (page.lastRequest = "stop" /\ \A n \in ConvIds : page.conv[n].st # "stopping") =>
       ActiveConvs = {}

\* C40 as stated: no printer request is issued while demo mode is on.
C40_DemoSilent ==
  \A i \in DOMAIN page.requests : ~page.requests[i].demo

====
